---- MODULE Spec2Model ----
(***************************************************************************)
(* Identity / session reconciliation and private-room routing of the      *)
(* messaging service in src/App.py.                                        *)
(*                                                                         *)
(* The durable store is the PostgreSQL schema of init_db; every SQL        *)
(* statement is one atomic step, arbitrated by the UNIQUE constraints.     *)
(* A handler suspends at each store call, so a handler is a chain of       *)
(* steps, one per store call, each step being the local code that leads    *)
(* to the call followed by the statement itself.  A connection's events    *)
(* are handled one after the other; handlers of different connections,     *)
(* and the disconnect of a connection whose handler is suspended,          *)
(* interleave freely.                                                      *)
(***************************************************************************)
EXTENDS Integers, Sequences, FiniteSets, TLC

\* ---------------------------------------------------------------- bounds
NumConns == 2     \* connection ids handed out by the transport
MaxUsers == 2     \* rows the users table may grow to

Conns == 1..NumConns

\* --------------------------------------------------------------- inputs
\* Handles and display names are character sequences, as the client sends
\* them: before .lower().strip().
TagInputs ==
    { <<"a", "n", "n">>, <<"B", "o", "b">>, <<"b", "o", "b">>, <<"a", "b">>,
      <<"b", "o", "b", "\n">> }
NameInputs == { <<"A", "l">>, <<" ">> }
ProfileNameInputs == { <<"A", "l">> }
AvatarInputs == { "default" }

VARIABLES
    conn,              \* transport: connection id -> "new" | "open" | "closed"
    db_users,          \* table users: sequence of rows, row i has id i
    users,             \* the in-memory dict users: sid -> identity
    pc,                \* position of the handler running for each connection
    frame,             \* local variables of that handler
    out,               \* what the last step emitted to its own connection
    issued,            \* session tokens the server has sent to a client so far
    private_chats,     \* table private_chats: sequence of rows
    private_messages,  \* table private_messages: sequence of rows, row i has id i
    rooms,             \* the in-memory dict rooms: chat_id -> list of sids
    sio_rooms,         \* the transport's rooms: set of <<chat_id, sid>>
    delivered,         \* new_private_message events delivered: <<sid, message id>>
    messages,          \* table messages (the general chat): row i has id i
    favorites,         \* table favorites: sequence of rows in the order of added_at
    uploads            \* the folder uploads: file name -> the bytes of the file

roomVars == <<private_chats, private_messages, rooms, sio_rooms, delivered>>
feedVars == <<messages, favorites, uploads>>
vars == <<conn, db_users, users, pc, frame, out, issued, roomVars, feedVars>>

\* ------------------------------------------------------ string helpers
LowerChar(ch) ==
    CASE ch = "A" -> "a"
      [] ch = "B" -> "b"
      [] ch = "O" -> "o"
      [] ch = "N" -> "n"
      [] OTHER -> ch

lower(s) == [i \in 1..Len(s) |-> LowerChar(s[i])]

\* What str.strip() removes, as far as the inputs have it
Whitespace == { " ", "\n" }

RECURSIVE lstrip(_)
lstrip(s) == IF s # <<>> /\ Head(s) \in Whitespace THEN lstrip(Tail(s)) ELSE s

RECURSIVE rstrip(_)
rstrip(s) ==
    IF s # <<>> /\ s[Len(s)] \in Whitespace THEN rstrip(SubSeq(s, 1, Len(s) - 1))
    ELSE s

strip(s) == rstrip(lstrip(s))

TagChars ==
    { "a", "b", "c", "d", "e", "f", "g", "h", "i", "j", "k", "l", "m",
      "n", "o", "p", "q", "r", "s", "t", "u", "v", "w", "x", "y", "z",
      "0", "1", "2", "3", "4", "5", "6", "7", "8", "9", "_" }

\* [a-z0-9_]{3,20} and nothing else
matches_handle_pattern(tag) ==
    /\ Len(tag) >= 3
    /\ Len(tag) <= 20
    /\ \A i \in 1..Len(tag) : tag[i] \in TagChars

\* `if not tag: return False`, then re.match(r'^[a-z0-9_]{3,20}$', tag): the
\* $ of re.match matches at the end of the string and also just before a
\* newline that ends the string.
validate_tag(tag) ==
    /\ tag # <<>>
    /\ \/ matches_handle_pattern(tag)
       \/ /\ tag[Len(tag)] = "\n"
          /\ matches_handle_pattern(SubSeq(tag, 1, Len(tag) - 1))

\* ------------------------------------------------------------ uploads
\* [A-Za-z0-9_.-], what _filename_ascii_strip_re of werkzeug leaves in a name
FilenameChars ==
    TagChars \cup { "A", "B", "O", "N", ".", "-" }

\* filename.replace(os.sep, " ")
replace_sep(s) == [i \in 1..Len(s) |-> IF s[i] = "/" THEN " " ELSE s[i]]

\* "_".join(s.split()) of a string without blanks at its ends
RECURSIVE join_split(_)
join_split(s) ==
    IF s = <<>> THEN <<>>
    ELSE IF Head(s) \in Whitespace THEN <<"_">> \o join_split(lstrip(s))
    ELSE <<Head(s)>> \o join_split(Tail(s))

IsFilenameChar(ch) == ch \in FilenameChars

\* str.strip("._")
RECURSIVE strip_dots(_)
strip_dots(s) ==
    IF s # <<>> /\ Head(s) \in {".", "_"} THEN strip_dots(Tail(s))
    ELSE IF s # <<>> /\ s[Len(s)] \in {".", "_"}
         THEN strip_dots(SubSeq(s, 1, Len(s) - 1))
    ELSE s

\* werkzeug.utils.secure_filename: path separators become blanks, runs of
\* blanks become one "_", every other character outside [A-Za-z0-9_.-] is
\* dropped, and dots and underscores are stripped from both ends
secure_filename(filename) ==
    strip_dots(SelectSeq(join_split(strip(replace_sep(filename))), IsFilenameChar))

\* if ',' in file_data: file_data = file_data.split(',')[1]
RECURSIVE up_to_comma(_)
up_to_comma(s) ==
    IF s = <<>> \/ Head(s) = "," THEN <<>> ELSE <<Head(s)>> \o up_to_comma(Tail(s))

RECURSIVE after_comma(_)
after_comma(s) ==
    IF s = <<>> THEN <<>>
    ELSE IF Head(s) = "," THEN Tail(s)
    ELSE after_comma(Tail(s))

split_comma_1(file_data) ==
    IF \E i \in 1..Len(file_data) : file_data[i] = ","
    THEN up_to_comma(after_comma(file_data))
    ELSE file_data

\* base64.b64decode of the strings the inputs have: the bytes, or Incorrect
\* for binascii.Error (incorrect padding)
Incorrect == << -1 >>

b64decode(s) ==
    CASE s = <<>> -> <<>>
      [] s = <<"Q", "Q", "=", "=">> -> <<65>>
      [] s = <<"Q", "g", "=", "=">> -> <<66>>
      [] OTHER -> Incorrect

\* f'/uploads/{filename}'
UploadsRoute == <<"/", "u", "p", "l", "o", "a", "d", "s", "/">>

uploads_path(filename) == UploadsRoute \o filename

\* The <filename> that the route /uploads/<filename> takes from a path;
\* <<>> when the path does not match the route
route_filename(path) ==
    IF /\ Len(path) > Len(UploadsRoute)
       /\ SubSeq(path, 1, Len(UploadsRoute)) = UploadsRoute
       /\ \A i \in (Len(UploadsRoute) + 1)..Len(path) : path[i] # "/"
    THEN SubSeq(path, Len(UploadsRoute) + 1, Len(path))
    ELSE <<>>

NotFound == << -404 >>

\* uploaded_file: send_from_directory(UPLOAD_FOLDER, filename), the bytes of
\* the file or NotFound
send_from_directory(folder, filename) ==
    IF filename \in DOMAIN folder THEN folder[filename] ELSE NotFound

\* What a GET of `path` returns
get_path(folder, path) ==
    IF route_filename(path) = <<>> THEN NotFound
    ELSE send_from_directory(folder, route_filename(path))

\* with open(filepath, 'wb') as f: f.write(base64.b64decode(file_data)):
\* open truncates the file before b64decode runs, so a string that does not
\* decode leaves an empty file
write_upload(folder, filename, file_data) ==
    LET bytes == IF b64decode(file_data) = Incorrect THEN <<>> ELSE b64decode(file_data)
    IN  [n \in DOMAIN folder \cup {filename} |->
            IF n = filename THEN bytes ELSE folder[n]]

\* not username or len(username) > 50
invalid_name(username) == username = <<>> \/ Len(username) > 50

\* ------------------------------------------------------- durable store
UserIds == 1..Len(db_users)

\* generate_session_token: a fresh random digest per user; two users never
\* draw the same one.  The token of the row with id i is written i.
generate_session_token(rows) == Len(rows) + 1

NoToken == 0
BadToken == MaxUsers + 1      \* a token no row ever holds

\* SELECT ... FROM users WHERE socket_id = %s : the id found, 0 for None
get_user_by_socket(rows, sid) ==
    IF \E i \in 1..Len(rows) : rows[i].socket_id = sid
    THEN CHOOSE i \in 1..Len(rows) : rows[i].socket_id = sid
    ELSE 0

\* SELECT ... FROM users WHERE session_token = %s
get_user_by_session(rows, token) ==
    IF token = NoToken THEN 0
    ELSE IF \E i \in 1..Len(rows) : rows[i].session_token = token
    THEN CHOOSE i \in 1..Len(rows) : rows[i].session_token = token
    ELSE 0

\* SELECT ... FROM users WHERE user_tag = %s
get_user_by_tag(rows, tag) ==
    IF \E i \in 1..Len(rows) : rows[i].user_tag = tag
    THEN CHOOSE i \in 1..Len(rows) : rows[i].user_tag = tag
    ELSE 0

\* A schema that would lack UNIQUE on user_tag
users_unique_no_tag(rows, self, row) ==
    \E i \in 1..Len(rows) :
        /\ i # self
        /\ \/ rows[i].socket_id = row.socket_id
           \/ rows[i].session_token = row.session_token

\* The UNIQUE constraints of table users, for the row `row` about to be
\* written in place of row `self` (0: a new row).
users_unique_violation(rows, self, row) ==
    \E i \in 1..Len(rows) :
        /\ i # self
        /\ \/ rows[i].socket_id = row.socket_id
           \/ rows[i].user_tag = row.user_tag
           \/ rows[i].session_token = row.session_token

\* get_message_history has limit=100 as its default, and no caller passes
\* another one.
HistoryLimit == 100

\* The chat_id 'general' of the payload of toggle_favorite; no
\* generate_chat_id yields it.
General == <<0, 0>>

\* SELECT id FROM favorites WHERE user_id = %s AND message_id = %s (NULL, here
\* 0, matches nothing)
check_message_favorite(favs, user_id, message_id) ==
    /\ user_id # 0
    /\ message_id # 0
    /\ \E i \in 1..Len(favs) :
           favs[i].user_id = user_id /\ favs[i].message_id = message_id

\* get_message_history: the first `limit` rows of messages in the order of
\* created_at, LEFT JOINed with the favorites of user_id (0: None, the query
\* with `false as is_favorite`)
get_message_history(rows, favs, user_id, limit) ==
    [i \in 1..(IF Len(rows) < limit THEN Len(rows) ELSE limit) |->
        [id |-> i, user |-> rows[i].username, tag |-> rows[i].user_tag,
         text |-> rows[i].message_text,
         is_favorite |-> check_message_favorite(favs, user_id, i)]]

\* Trigger update_messages_username, AFTER UPDATE OF user_tag ON users:
\* UPDATE messages SET user_tag = NEW.user_tag WHERE user_id = NEW.id
update_username_in_messages(rows, id, user_tag) ==
    [i \in 1..Len(rows) |->
        IF rows[i].user_id = id THEN [rows[i] EXCEPT !.user_tag = user_tag]
        ELSE rows[i]]

\* The connections an emit reaches out of the set S it is addressed to
Open(S) == { c \in S : conn[c] = "open" }

\* ------------------------------------------------------------- frames
NoFrame ==
    [h |-> "", username |-> <<>>, user_tag |-> <<>>, avatar |-> "",
     uid |-> 0, token |-> NoToken, success |-> FALSE, error |-> "",
     target |-> 0, chat_id |-> <<>>, text |-> <<>>, rows |-> <<>>,
     is_favorite |-> FALSE, filename |-> <<>>, filepath |-> <<>>, file |-> <<>>]

\* What the handler of connection `to` ended with in the last step: the event
\* it emitted to its own connection (ev = "" when it returned without
\* emitting, "exception" when it raised).  A step that ends no handler
\* leaves NoReply.
NoReply ==
    [to |-> 0, h |-> "", ev |-> "", uid |-> 0, username |-> <<>>, tag |-> <<>>,
     token |-> NoToken,
     error |-> "", target |-> 0, chat_id |-> <<>>, text |-> <<>>,
     filepath |-> <<>>, body |-> <<>>,
     audience |-> {}, history_to |-> {}, history |-> <<>>, list |-> <<>>,
     is_favorite |-> FALSE]

Reply(h, ev, f, error) ==
    [NoReply EXCEPT !.h = h, !.ev = ev, !.uid = f.uid, !.tag = f.user_tag,
                    !.token = f.token, !.error = error, !.target = f.target,
                    !.chat_id = f.chat_id, !.text = f.text,
                    !.filepath = f.filepath,
                    !.is_favorite = f.is_favorite]

Silent(h) == [NoReply EXCEPT !.h = h]

Raised(h, f, exception) == Reply(h, "exception", f, exception)

Identity(f) ==
    [id |-> f.uid, username |-> f.username, tag |-> f.user_tag,
     avatar |-> f.avatar, token |-> f.token]

Bind(c, ident) == [k \in DOMAIN users \cup {c} |-> IF k = c THEN ident ELSE users[k]]

Unbind(c) == [k \in DOMAIN users \ {c} |-> users[k]]

Idle(c) == conn[c] = "open" /\ pc[c] = "idle"

\* A handler ends: its frame is dropped and its outcome recorded.
Finish(c, r) ==
    /\ pc' = [pc EXCEPT ![c] = "idle"]
    /\ frame' = [frame EXCEPT ![c] = NoFrame]
    /\ out' = [r EXCEPT !.to = c]
    /\ issued' = IF r.ev \in {"register_success", "session_result"} /\ r.token # NoToken
                 THEN issued \cup {r.token}
                 ELSE issued

Goto(c, p, f) ==
    /\ pc' = [pc EXCEPT ![c] = p]
    /\ frame' = [frame EXCEPT ![c] = f]
    /\ out' = NoReply
    /\ UNCHANGED issued

\* ------------------------------------------------------------ Init
Init ==
    /\ conn = [c \in Conns |-> "new"]
    /\ db_users = <<>>
    /\ users = <<>>
    /\ pc = [c \in Conns |-> "idle"]
    /\ frame = [c \in Conns |-> NoFrame]
    /\ out = NoReply
    /\ issued = {}
    /\ private_chats = <<>>
    /\ private_messages = <<>>
    /\ rooms = <<>>
    /\ sio_rooms = {}
    /\ delivered = {}
    /\ messages = <<>>
    /\ favorites = <<>>
    /\ uploads = <<>>

\* ------------------------------------------------- connect / disconnect
handle_connect(c) ==
    /\ conn[c] = "new"
    /\ conn' = [conn EXCEPT ![c] = "open"]
    /\ out' = NoReply
    /\ UNCHANGED <<db_users, users, pc, frame, issued, roomVars, feedVars>>

\* rooms[room].remove(sid): the first occurrence only
InList(seq, x) == \E i \in 1..Len(seq) : seq[i] = x

list_remove(seq, x) ==
    LET i == CHOOSE k \in 1..Len(seq) : seq[k] = x /\ \A j \in 1..(k - 1) : seq[j] # x
    IN  SubSeq(seq, 1, i - 1) \o SubSeq(seq, i + 1, Len(seq))

\* chat_id in rooms and request.sid in rooms[chat_id]
Listed(map, chat_id, c) == chat_id \in DOMAIN map /\ InList(map[chat_id], c)

\* The loop of handle_disconnect over list(rooms.keys())
prune_rooms(c) ==
    LET kept == { k \in DOMAIN rooms : ~(InList(rooms[k], c) /\ Len(rooms[k]) = 1) }
    IN  [k \in kept |-> IF InList(rooms[k], c) THEN list_remove(rooms[k], c)
                        ELSE rooms[k]]

\* The transport closes c (and drops it from its own rooms), then runs the
\* disconnect handler.  A handler of c suspended at a store call goes on.
handle_disconnect(c) ==
    /\ conn[c] = "open"
    /\ conn' = [conn EXCEPT ![c] = "closed"]
    /\ sio_rooms' = { m \in sio_rooms : m[2] # c }
    /\ IF c \in DOMAIN users
       THEN users' = Unbind(c) /\ rooms' = prune_rooms(c)
       ELSE UNCHANGED <<users, rooms>>
    /\ out' = NoReply
    /\ UNCHANGED <<db_users, pc, frame, issued, feedVars, private_chats, private_messages,
                   delivered>>

\* ------------------------------------------------------------- register
\* The answer to a register that fails validation; username and tag are what
\* the handler computed from the payload.
Invalid(username, user_tag, error) ==
    [Silent("register") EXCEPT !.ev = "register_error", !.error = error,
                               !.username = username, !.tag = user_tag]

\* A slip that would lack the check of the name
handle_register_any_name(c, name, tag, avatar) ==
    /\ Idle(c)
    /\ LET username == strip(name)
           user_tag == strip(lower(tag))
       IN  IF ~validate_tag(user_tag)
           THEN Finish(c, Invalid(username, user_tag, "invalid_tag"))
           ELSE Goto(c, "register_existing",
                     [NoFrame EXCEPT !.h = "register", !.username = username,
                                     !.user_tag = user_tag, !.avatar = avatar,
                                     !.uid = get_user_by_socket(db_users, c)])
    /\ UNCHANGED <<conn, db_users, users, roomVars, feedVars>>

\* handle_register up to get_user_by_socket
handle_register(c, name, tag, avatar) ==
    /\ Idle(c)
    /\ LET username == strip(name)
           user_tag == strip(lower(tag))
       IN  IF invalid_name(username)
           THEN Finish(c, Invalid(username, user_tag, "invalid_name"))
           ELSE IF ~validate_tag(user_tag)
           THEN Finish(c, Invalid(username, user_tag, "invalid_tag"))
           ELSE Goto(c, "register_existing",
                     [NoFrame EXCEPT !.h = "register", !.username = username,
                                     !.user_tag = user_tag, !.avatar = avatar,
                                     !.uid = get_user_by_socket(db_users, c)])
    /\ UNCHANGED <<conn, db_users, users, roomVars, feedVars>>

\* A slip that would leave UniqueViolation uncaught in create_user
create_user_uncaught(c) ==
    /\ pc[c] = "register_existing"
    /\ frame[c].uid = 0
    /\ LET f == frame[c]
           row == [socket_id |-> c, username |-> f.username, user_tag |-> f.user_tag,
                   avatar |-> f.avatar,
                   session_token |-> generate_session_token(db_users)]
       IN  IF users_unique_violation(db_users, 0, row)
           THEN /\ Finish(c, Raised("register", f, "UniqueViolation"))
                /\ UNCHANGED db_users
           ELSE /\ Len(db_users) < MaxUsers
                /\ db_users' = Append(db_users, row)
                /\ Goto(c, "register_result",
                        [f EXCEPT !.success = TRUE, !.uid = Len(db_users) + 1,
                                  !.token = row.session_token])
    /\ UNCHANGED <<conn, users, roomVars, feedVars>>

\* create_user: the INSERT, with UniqueViolation answered as tag_taken
create_user(c) ==
    /\ pc[c] = "register_existing"
    /\ frame[c].uid = 0
    /\ LET f == frame[c]
           row == [socket_id |-> c, username |-> f.username, user_tag |-> f.user_tag,
                   avatar |-> f.avatar,
                   session_token |-> generate_session_token(db_users)]
       IN  IF users_unique_violation(db_users, 0, row)
           THEN /\ Goto(c, "register_result",
                        [f EXCEPT !.success = FALSE, !.error = "tag_taken"])
                /\ UNCHANGED db_users
           ELSE /\ Len(db_users) < MaxUsers
                /\ db_users' = Append(db_users, row)
                /\ Goto(c, "register_result",
                        [f EXCEPT !.success = TRUE, !.uid = Len(db_users) + 1,
                                  !.token = row.session_token])
    /\ UNCHANGED <<conn, users, roomVars, feedVars>>

\* update_user: SELECT id, user_tag FROM users WHERE socket_id = %s
update_user_select(c, f) ==
    LET result == IF f.h = "register" THEN "register_result" ELSE "profile_result"
        update == IF f.h = "register" THEN "register_update" ELSE "profile_update"
    IN  IF get_user_by_socket(db_users, c) = 0
        THEN Goto(c, result, [f EXCEPT !.success = FALSE, !.error = "user_not_found"])
        ELSE Goto(c, update, f)

\* handle_register, `if existing:` branch, up to the SELECT of update_user
register_update_user(c) ==
    /\ pc[c] = "register_existing"
    /\ frame[c].uid # 0
    /\ update_user_select(c, frame[c])
    /\ UNCHANGED <<conn, db_users, users, roomVars, feedVars>>

\* SET username = %s, user_tag = %s, avatar = %s (last_seen is not modelled)
updated_row(old, f) ==
    [old EXCEPT !.username = f.username, !.user_tag = f.user_tag, !.avatar = f.avatar]

\* username VARCHAR(50), user_tag VARCHAR(30): a longer value makes the
\* statement fail (the blanks that PostgreSQL would cut off are not modelled)
users_too_long(row) == Len(row.username) > 50 \/ Len(row.user_tag) > 30

\* update_user: UPDATE users SET ... WHERE socket_id = %s RETURNING ...
update_user_update(c) ==
    /\ pc[c] \in {"register_update", "profile_update"}
    /\ LET f == frame[c]
           result == IF f.h = "register" THEN "register_result" ELSE "profile_result"
           id == get_user_by_socket(db_users, c)
       IN  IF id = 0
           THEN \* no row matches: fetchone() is None, and success is reported
                /\ Goto(c, result, [f EXCEPT !.success = TRUE, !.uid = 0])
                /\ UNCHANGED <<db_users, messages>>
           ELSE LET row == updated_row(db_users[id], f)
                IN  IF users_too_long(row)
                    THEN \* except Exception: the error is str(e)
                         /\ Goto(c, result,
                                 [f EXCEPT !.success = FALSE,
                                           !.error = "StringDataRightTruncation"])
                         /\ UNCHANGED <<db_users, messages>>
                    ELSE IF users_unique_violation(db_users, id, row)
                    THEN /\ Goto(c, result,
                                 [f EXCEPT !.success = FALSE, !.error = "tag_taken"])
                         /\ UNCHANGED <<db_users, messages>>
                    ELSE /\ db_users' = [db_users EXCEPT ![id] = row]
                         /\ messages' = update_username_in_messages(messages, id,
                                                                     row.user_tag)
                         /\ Goto(c, result,
                                 [f EXCEPT !.success = TRUE, !.uid = id,
                                           !.token = row.session_token])
    /\ UNCHANGED <<conn, users, roomVars, favorites, uploads>>

\* handle_register from the result of create_user / update_user on
register_result(c) ==
    /\ pc[c] = "register_result"
    /\ LET f == frame[c]
       IN  IF f.success
           THEN IF f.uid = 0
                THEN \* user is None: user['id'] raises
                     /\ Finish(c, Raised("register", f, "TypeError"))
                     /\ UNCHANGED users
                ELSE /\ users' = Bind(c, Identity(f))
                     /\ Finish(c, [Reply("register", "register_success", f, "")
                                     EXCEPT !.history_to = Open({c}),
                                            !.history = get_message_history(
                                                messages, favorites, f.uid,
                                                HistoryLimit)])
           ELSE /\ Finish(c, Reply("register", "register_error", f, f.error))
                /\ UNCHANGED users
    /\ UNCHANGED <<conn, db_users, roomVars, feedVars>>

\* -------------------------------------------------------- check_session
\* handle_check_session up to get_user_by_session (the first half of
\* login_by_session)
handle_check_session(c, session_token) ==
    /\ Idle(c)
    /\ IF session_token = NoToken
       THEN Finish(c, [Silent("check_session") EXCEPT !.ev = "session_result"])
       ELSE LET id == get_user_by_session(db_users, session_token)
            IN  IF id = 0
                THEN \* login_by_session returns None: nothing is emitted
                     Finish(c, [Silent("check_session") EXCEPT !.token = session_token])
                ELSE Goto(c, "session_update",
                          [NoFrame EXCEPT !.h = "check_session", !.uid = id,
                                          !.token = session_token])
    /\ UNCHANGED <<conn, db_users, users, roomVars, feedVars>>

\* login_by_session: UPDATE users SET socket_id = %s WHERE id = %s RETURNING ...
\* No except clause: a UniqueViolation on socket_id leaves the handler.
login_by_session(c) ==
    /\ pc[c] = "session_update"
    /\ LET f == frame[c]
           row == [db_users[f.uid] EXCEPT !.socket_id = c]
       IN  IF users_unique_violation(db_users, f.uid, row)
           THEN /\ Finish(c, Raised("check_session", f, "UniqueViolation"))
                /\ UNCHANGED db_users
           ELSE /\ db_users' = [db_users EXCEPT ![f.uid] = row]
                /\ Goto(c, "session_result",
                        [f EXCEPT !.username = row.username, !.user_tag = row.user_tag,
                                  !.avatar = row.avatar])
    /\ UNCHANGED <<conn, users, roomVars, feedVars>>

\* handle_check_session from `if user:` on
session_result(c) ==
    /\ pc[c] = "session_result"
    /\ users' = Bind(c, Identity(frame[c]))
    /\ Finish(c, [Reply("check_session", "session_result", frame[c], "")
                    EXCEPT !.history_to = Open({c}),
                           !.history = get_message_history(messages, favorites,
                                                           frame[c].uid, HistoryLimit)])
    /\ UNCHANGED <<conn, db_users, roomVars, feedVars>>

\* ------------------------------------------------------- update_profile
\* A field of the payload: <<>> when the key is absent, <<v>> when present.
Opt(S) == { <<>> } \cup { <<v>> : v \in S }

Get(field, default) == IF field = <<>> THEN default ELSE field[1]

\* handle_update_profile up to the SELECT of update_user
handle_update_profile(c, name, tag, avatar) ==
    /\ Idle(c)
    /\ IF c \notin DOMAIN users
       THEN Finish(c, Silent("update_profile"))
       ELSE LET old == users[c]
                new_tag == Get(tag, old.tag)
            IN  IF new_tag # old.tag /\ ~validate_tag(new_tag)
                THEN Finish(c, [Silent("update_profile") EXCEPT
                                   !.ev = "profile_error", !.error = "invalid_tag"])
                ELSE update_user_select(c,
                          [NoFrame EXCEPT !.h = "update_profile",
                                          !.username = Get(name, old.username),
                                          !.user_tag = new_tag,
                                          !.avatar = Get(avatar, old.avatar)])
    /\ UNCHANGED <<conn, db_users, users, roomVars, feedVars>>

\* handle_update_profile from the result of update_user on
profile_result(c) ==
    /\ pc[c] = "profile_result"
    /\ LET f == frame[c]
       IN  IF f.success
           THEN IF f.uid = 0
                THEN \* user is None: user['username'] raises
                     /\ Finish(c, Raised("update_profile", f, "TypeError"))
                     /\ UNCHANGED users
                ELSE IF c \notin DOMAIN users
                THEN \* users[request.sid] after the disconnect popped it
                     /\ Finish(c, Raised("update_profile", f, "KeyError"))
                     /\ UNCHANGED users
                ELSE /\ users' = [users EXCEPT ![c].username = f.username,
                                               ![c].tag = f.user_tag,
                                               ![c].avatar = f.avatar]
                     /\ Finish(c, [Reply("update_profile", "profile_updated", f, "")
                                     EXCEPT !.audience = Open(DOMAIN conn),
                                            !.history_to = Open(DOMAIN conn),
                                            !.history = get_message_history(
                                                messages, favorites, f.uid,
                                                HistoryLimit)])
           ELSE /\ Finish(c, Reply("update_profile", "profile_error", f, f.error))
                /\ UNCHANGED users
    /\ UNCHANGED <<conn, db_users, roomVars, feedVars>>

\* --------------------------------------------- the identity specification
\* What a client can send as its session token: nothing, a token the server
\* has sent out, or one it made up.
TokenInputs == {NoToken, BadToken} \cup issued

Next ==
    \/ \E c \in Conns : handle_connect(c)
    \/ \E c \in Conns : handle_disconnect(c)
    \/ \E c \in Conns, name \in NameInputs, tag \in TagInputs, avatar \in AvatarInputs :
          handle_register(c, name, tag, avatar)
    \/ \E c \in Conns : create_user(c)
    \/ \E c \in Conns : register_update_user(c)
    \/ \E c \in Conns : update_user_update(c)
    \/ \E c \in Conns : register_result(c)
    \/ \E c \in Conns, token \in TokenInputs : handle_check_session(c, token)
    \/ \E c \in Conns : login_by_session(c)
    \/ \E c \in Conns : session_result(c)
    \/ \E c \in Conns, name \in Opt(ProfileNameInputs), tag \in Opt(TagInputs),
          avatar \in Opt(AvatarInputs) : handle_update_profile(c, name, tag, avatar)
    \/ \E c \in Conns : profile_result(c)

Spec == Init /\ [][Next]_vars

\* ------------------------------------------------------- private rooms
MaxJoins == 2      \* entries one list of the dict rooms may grow to
MaxMessages == 1   \* rows the private_messages table may grow to

Min(a, b) == IF a <= b THEN a ELSE b
Max(a, b) == IF a <= b THEN b ELSE a

\* A slip that would lack sorted(): the digest of "<user1_id>-<user2_id>"
generate_chat_id_unsorted(user1_id, user2_id) == << user1_id, user2_id >>

\* generate_chat_id: the digest of "<smaller id>-<larger id>", written as the
\* sorted pair it is computed from (distinct pairs give distinct digests).
generate_chat_id(user1_id, user2_id) ==
    << Min(user1_id, user2_id), Max(user1_id, user2_id) >>

\* SELECT chat_id FROM private_chats WHERE (user1_id, user2_id) is the pair in
\* either order: the rows found
select_private_chat(rows, user1_id, user2_id) ==
    { i \in 1..Len(rows) :
        \/ rows[i].user1_id = user1_id /\ rows[i].user2_id = user2_id
        \/ rows[i].user1_id = user2_id /\ rows[i].user2_id = user1_id }

\* A schema that would lack UNIQUE on chat_id
private_chats_unique_pair_only(rows, row) ==
    \E i \in 1..Len(rows) :
        rows[i].user1_id = row.user1_id /\ rows[i].user2_id = row.user2_id

\* The constraints of table private_chats: chat_id UNIQUE and
\* UNIQUE(user1_id, user2_id)
private_chats_unique_violation(rows, row) ==
    \E i \in 1..Len(rows) :
        \/ rows[i].chat_id = row.chat_id
        \/ rows[i].user1_id = row.user1_id /\ rows[i].user2_id = row.user2_id

\* SELECT user1_id, user2_id FROM private_chats WHERE chat_id = %s
select_chat_by_id(rows, chat_id) ==
    IF \E i \in 1..Len(rows) : rows[i].chat_id = chat_id
    THEN CHOOSE i \in 1..Len(rows) : rows[i].chat_id = chat_id
    ELSE 0

\* join_room(chat_id); rooms.setdefault(chat_id, []).append(sid)
join(c, chat_id) ==
    /\ chat_id \in DOMAIN rooms => Len(rooms[chat_id]) < MaxJoins
    /\ sio_rooms' = sio_rooms \cup { <<chat_id, c>> }
    /\ rooms' = [k \in DOMAIN rooms \cup {chat_id} |->
                    IF k = chat_id
                    THEN Append(IF k \in DOMAIN rooms THEN rooms[k] ELSE <<>>, c)
                    ELSE rooms[k]]

\* handle_start_private_chat up to get_user_by_tag
handle_start_private_chat(c, tag) ==
    /\ Idle(c)
    /\ IF c \notin DOMAIN users
       THEN Finish(c, Silent("start_private_chat"))
       ELSE LET target_tag == strip(lower(tag))
            IN  IF target_tag = <<>>
                THEN Finish(c, [Silent("start_private_chat") EXCEPT
                                   !.ev = "private_chat_error", !.error = "empty_tag"])
                ELSE Goto(c, "chat_target",
                          [NoFrame EXCEPT !.h = "start_private_chat",
                                          !.uid = users[c].id,
                                          !.target = get_user_by_tag(db_users, target_tag)])
    /\ UNCHANGED <<conn, db_users, users, roomVars, feedVars>>

\* A slip that would lack the comparison of target_user['id'] with
\* user_data['id']
chat_select_no_self_check(c) ==
    /\ pc[c] = "chat_target"
    /\ LET f == frame[c]
           found == select_private_chat(private_chats, f.uid, f.target)
       IN  IF f.target = 0
           THEN Finish(c, Reply("start_private_chat", "private_chat_error", f,
                                "user_not_found"))
           ELSE IF found # {}
           THEN \E i \in found :
                    Goto(c, "chat_join", [f EXCEPT !.chat_id = private_chats[i].chat_id])
           ELSE Goto(c, "chat_insert", f)
    /\ UNCHANGED <<conn, db_users, users, roomVars, feedVars>>

\* handle_start_private_chat from `if not target_user` up to the SELECT of
\* get_or_create_private_chat
chat_select(c) ==
    /\ pc[c] = "chat_target"
    /\ LET f == frame[c]
           found == select_private_chat(private_chats, f.uid, f.target)
       IN  IF f.target = 0
           THEN Finish(c, Reply("start_private_chat", "private_chat_error", f,
                                "user_not_found"))
           ELSE IF f.target = f.uid
           THEN Finish(c, Reply("start_private_chat", "private_chat_error", f,
                                "self_chat"))
           ELSE IF found # {}
           THEN \E i \in found :
                    Goto(c, "chat_join", [f EXCEPT !.chat_id = private_chats[i].chat_id])
           ELSE Goto(c, "chat_insert", f)
    /\ UNCHANGED <<conn, db_users, users, roomVars, feedVars>>

\* get_or_create_private_chat: the INSERT; any exception is answered None,
\* which the handler reports as chat_creation_failed
chat_insert(c) ==
    /\ pc[c] = "chat_insert"
    /\ LET f == frame[c]
           row == [chat_id |-> generate_chat_id(f.uid, f.target),
                   user1_id |-> f.uid, user2_id |-> f.target]
       IN  IF private_chats_unique_violation(private_chats, row)
           THEN /\ Finish(c, Reply("start_private_chat", "private_chat_error", f,
                                   "chat_creation_failed"))
                /\ UNCHANGED private_chats
           ELSE /\ private_chats' = Append(private_chats, row)
                /\ Goto(c, "chat_join", [f EXCEPT !.chat_id = row.chat_id])
    /\ UNCHANGED <<conn, db_users, users, feedVars, private_messages, rooms, sio_rooms,
                   delivered>>

\* handle_start_private_chat from join_room(chat_id) on
chat_join(c) ==
    /\ pc[c] = "chat_join"
    /\ join(c, frame[c].chat_id)
    /\ Finish(c, Reply("start_private_chat", "private_chat_started", frame[c], ""))
    /\ UNCHANGED <<conn, db_users, users, feedVars, private_chats, private_messages, delivered>>

\* handle_join_private_chat: no store call, no look at users
handle_join_private_chat(c, chat_id) ==
    /\ Idle(c)
    /\ IF chat_id = <<>>
       THEN UNCHANGED <<rooms, sio_rooms>>
       ELSE join(c, chat_id)
    /\ Finish(c, [Silent("join_private_chat") EXCEPT !.chat_id = chat_id])
    /\ UNCHANGED <<conn, db_users, users, feedVars, private_chats, private_messages, delivered>>

\* A slip that would edit the list rooms[chat_id] and forget leave_room
handle_leave_private_chat_list_only(c, chat_id) ==
    /\ Idle(c)
    /\ IF chat_id # <<>> /\ chat_id \in DOMAIN rooms /\ InList(rooms[chat_id], c)
       THEN rooms' = [rooms EXCEPT ![chat_id] = list_remove(@, c)]
       ELSE UNCHANGED rooms
    /\ Finish(c, [Silent("leave_private_chat") EXCEPT !.chat_id = chat_id])
    /\ UNCHANGED <<conn, db_users, users, feedVars, private_chats, private_messages, sio_rooms,
                   delivered>>

\* handle_leave_private_chat
handle_leave_private_chat(c, chat_id) ==
    /\ Idle(c)
    /\ IF chat_id = <<>>
       THEN UNCHANGED <<rooms, sio_rooms>>
       ELSE /\ sio_rooms' = sio_rooms \ { <<chat_id, c>> }
            /\ IF chat_id \in DOMAIN rooms /\ InList(rooms[chat_id], c)
               THEN rooms' = [rooms EXCEPT ![chat_id] = list_remove(@, c)]
               ELSE UNCHANGED rooms
    /\ Finish(c, [Silent("leave_private_chat") EXCEPT !.chat_id = chat_id])
    /\ UNCHANGED <<conn, db_users, users, feedVars, private_chats, private_messages, delivered>>

\* handle_send_private_message up to the SELECT of the chat row
handle_send_private_message(c, chat_id, text) ==
    /\ Idle(c)
    /\ IF c \notin DOMAIN users \/ chat_id = <<>> \/ strip(text) = <<>>
       THEN Finish(c, Silent("send_private_message"))
       ELSE Goto(c, "message_chat",
                 [NoFrame EXCEPT !.h = "send_private_message", !.uid = users[c].id,
                                 !.chat_id = chat_id, !.text = strip(text),
                                 !.target = select_chat_by_id(private_chats, chat_id)])
    /\ UNCHANGED <<conn, db_users, users, roomVars, feedVars>>

\* receiver_id = chat['user2_id'] if chat['user1_id'] == user_data['id']
\*               else chat['user1_id']
receiver_of(chat, sender_id) ==
    IF chat.user1_id = sender_id THEN chat.user2_id ELSE chat.user1_id

\* handle_send_private_message from `if not chat` up to the INSERT of
\* save_private_message
save_private_message(c) ==
    /\ pc[c] = "message_chat"
    /\ LET f == frame[c]
       IN  IF f.target = 0
           THEN /\ Finish(c, Silent("send_private_message"))
                /\ UNCHANGED private_messages
           ELSE /\ Len(private_messages) < MaxMessages
                /\ private_messages' =
                       Append(private_messages,
                              [chat_id |-> f.chat_id, sender_id |-> f.uid,
                               receiver_id |-> receiver_of(private_chats[f.target], f.uid),
                               message_text |-> f.text, filename |-> <<>>,
                               filepath |-> <<>>, message_type |-> "text"])
                /\ Goto(c, "message_saved", [f EXCEPT !.target = Len(private_messages) + 1])
    /\ UNCHANGED <<conn, db_users, users, feedVars, private_chats, rooms, sio_rooms, delivered>>

\* save_private_message raises (get_db_connection or the INSERT fails):
\* nothing catches it, the handler ends
save_private_message_raises(c) ==
    /\ pc[c] = "message_chat"
    /\ frame[c].target # 0
    /\ Finish(c, Raised("send_private_message", frame[c], "OperationalError"))
    /\ UNCHANGED <<conn, db_users, users, roomVars, feedVars>>

\* emit('new_private_message', ..., room=chat_id)
emit_private_message(c) ==
    /\ pc[c] = "message_saved"
    /\ delivered' = delivered \cup
           { <<m[2], frame[c].target>> : m \in { x \in sio_rooms : x[1] = frame[c].chat_id } }
    /\ Finish(c, Silent("send_private_message"))
    /\ UNCHANGED <<conn, db_users, users, feedVars, private_chats, private_messages, rooms,
                   sio_rooms>>

\* ------------------------------------------------------ the general chat
\* How many messages a user sends to the general chat
MaxBroadcasts == 1

sent_by(rows, user_id) == { i \in 1..Len(rows) : rows[i].user_id = user_id }

\* A slip that would emit new_message before save_message, with the id that
\* the row is going to get
handle_message_emit_first(c, text) ==
    /\ Idle(c)
    /\ IF c \notin DOMAIN users \/ strip(text) = <<>>
       THEN Finish(c, Silent("send_message"))
       ELSE Finish(c, [Reply("send_message", "new_message",
                             [NoFrame EXCEPT !.uid = users[c].id, !.text = strip(text),
                                             !.target = Len(messages) + 1], "")
                         EXCEPT !.audience = Open(DOMAIN conn)])
    /\ UNCHANGED <<conn, db_users, users, roomVars, feedVars>>

\* handle_message up to update_last_seen; user_data is the dict that users
\* holds for the connection
handle_message(c, text) ==
    /\ Idle(c)
    /\ IF c \notin DOMAIN users \/ strip(text) = <<>>
       THEN Finish(c, Silent("send_message"))
       ELSE Goto(c, "broadcast_save",
                 [NoFrame EXCEPT !.h = "send_message", !.uid = users[c].id,
                                 !.username = users[c].username,
                                 !.user_tag = users[c].tag,
                                 !.avatar = users[c].avatar,
                                 !.text = strip(text)])
    /\ UNCHANGED <<conn, db_users, users, roomVars, feedVars>>

\* save_message raises (get_db_connection or the INSERT fails): nothing
\* catches it, the handler ends
save_message_raises(c) ==
    /\ pc[c] = "broadcast_save"
    /\ Finish(c, Raised("send_message", frame[c], "OperationalError"))
    /\ UNCHANGED <<conn, db_users, users, roomVars, feedVars>>

\* save_message: INSERT INTO messages ... RETURNING id
save_message(c) ==
    /\ pc[c] = "broadcast_save"
    /\ Cardinality(sent_by(messages, frame[c].uid)) < MaxBroadcasts
    /\ LET f == frame[c]
       IN  /\ messages' = Append(messages,
                                 [user_id |-> f.uid, username |-> f.username,
                                  user_tag |-> f.user_tag, avatar |-> f.avatar,
                                  message_text |-> f.text, filename |-> <<>>,
                                  filepath |-> <<>>, message_type |-> "text"])
           /\ Goto(c, "broadcast_emit", [f EXCEPT !.target = Len(messages) + 1])
    /\ UNCHANGED <<conn, db_users, users, roomVars, favorites, uploads>>

\* emit('new_message', {'id': msg_id, ...}, broadcast=True)
emit_message(c) ==
    /\ pc[c] = "broadcast_emit"
    /\ Finish(c, [Reply("send_message", "new_message", frame[c], "")
                    EXCEPT !.audience = Open(DOMAIN conn)])
    /\ UNCHANGED <<conn, db_users, users, roomVars, feedVars>>

\* handle_get_message_history: the SELECT and the emit to the own connection
handle_get_message_history(c) ==
    /\ Idle(c)
    /\ LET user_id == IF c \in DOMAIN users THEN users[c].id ELSE 0
       IN  Finish(c, [Silent("get_message_history") EXCEPT
                         !.ev = "message_history", !.uid = user_id,
                         !.history_to = Open({c}),
                         !.history = get_message_history(messages, favorites, user_id,
                                                         HistoryLimit)])
    /\ UNCHANGED <<conn, db_users, users, roomVars, feedVars>>

\* ----------------------------------------------------------- file messages
\* handle_file up to update_last_seen
handle_file(c, filename, file_data) ==
    /\ Idle(c)
    /\ IF c \notin DOMAIN users \/ filename = <<>> \/ file_data = <<>>
       THEN Finish(c, Silent("send_file"))
       ELSE Goto(c, "file_open",
                 [NoFrame EXCEPT !.h = "send_file", !.uid = users[c].id,
                                 !.username = users[c].username,
                                 !.user_tag = users[c].tag,
                                 !.avatar = users[c].avatar,
                                 !.filename = filename, !.file = file_data])
    /\ UNCHANGED <<conn, db_users, users, roomVars, feedVars>>

\* The try block of handle_file and of handle_send_private_file up to the
\* end of the with statement: open raises on the empty name (the path is the
\* folder), b64decode raises after open has truncated the file
open_and_write(c, h, error_event, next) ==
    LET f == frame[c]
        name == secure_filename(f.filename)
        file_data == split_comma_1(f.file)
    IN  IF name = <<>>
        THEN /\ Finish(c, Reply(h, error_event, f, "IsADirectoryError"))
             /\ UNCHANGED uploads
        ELSE /\ uploads' = write_upload(uploads, name, file_data)
             /\ IF b64decode(file_data) = Incorrect
                THEN Finish(c, Reply(h, error_event, f, "binascii.Error"))
                ELSE Goto(c, next, [f EXCEPT !.filename = name,
                                             !.filepath = uploads_path(name),
                                             !.file = b64decode(file_data)])

file_write(c) ==
    /\ pc[c] = "file_open"
    /\ open_and_write(c, "send_file", "file_error", "file_save")
    /\ UNCHANGED <<conn, db_users, users, roomVars, messages, favorites>>

\* save_message(..., msg_type='file', filename=filename,
\*              filepath=f'/uploads/{filename}')
file_save_message(c) ==
    /\ pc[c] = "file_save"
    /\ Cardinality(sent_by(messages, frame[c].uid)) < MaxBroadcasts
    /\ LET f == frame[c]
       IN  /\ messages' = Append(messages,
                                 [user_id |-> f.uid, username |-> f.username,
                                  user_tag |-> f.user_tag, avatar |-> f.avatar,
                                  message_text |-> <<>>, filename |-> f.filename,
                                  filepath |-> f.filepath, message_type |-> "file"])
           /\ Goto(c, "file_emit", [f EXCEPT !.target = Len(messages) + 1])
    /\ UNCHANGED <<conn, db_users, users, roomVars, favorites, uploads>>

\* emit('new_message', {'id': msg_id, ..., 'type': 'file'}, broadcast=True)
file_emit(c) ==
    /\ pc[c] = "file_emit"
    /\ Finish(c, [Reply("send_file", "new_message", frame[c], "")
                    EXCEPT !.audience = Open(DOMAIN conn)])
    /\ UNCHANGED <<conn, db_users, users, roomVars, feedVars>>

\* handle_send_private_file up to the SELECT of the chat row
handle_send_private_file(c, chat_id, filename, file_data) ==
    /\ Idle(c)
    /\ IF c \notin DOMAIN users \/ chat_id = <<>> \/ filename = <<>> \/ file_data = <<>>
       THEN Finish(c, Silent("send_private_file"))
       ELSE Goto(c, "private_file_chat",
                 [NoFrame EXCEPT !.h = "send_private_file", !.uid = users[c].id,
                                 !.chat_id = chat_id,
                                 !.filename = filename, !.file = file_data,
                                 !.target = select_chat_by_id(private_chats, chat_id)])
    /\ UNCHANGED <<conn, db_users, users, roomVars, feedVars>>

\* handle_send_private_file from `if not chat` up to the end of the with
\* statement
private_file_write(c) ==
    /\ pc[c] = "private_file_chat"
    /\ IF frame[c].target = 0
       THEN /\ Finish(c, Silent("send_private_file"))
            /\ UNCHANGED uploads
       ELSE open_and_write(c, "send_private_file", "private_file_error",
                           "private_file_save")
    /\ UNCHANGED <<conn, db_users, users, roomVars, messages, favorites>>

\* save_private_message(..., msg_type='file', filename=filename,
\*                      filepath=f'/uploads/{filename}')
private_file_save_message(c) ==
    /\ pc[c] = "private_file_save"
    /\ Len(private_messages) < MaxMessages
    /\ LET f == frame[c]
       IN  /\ private_messages' =
                  Append(private_messages,
                         [chat_id |-> f.chat_id, sender_id |-> f.uid,
                          receiver_id |-> receiver_of(private_chats[f.target], f.uid),
                          message_text |-> <<>>, filename |-> f.filename,
                          filepath |-> f.filepath, message_type |-> "file"])
           /\ Goto(c, "private_file_emit",
                   [f EXCEPT !.target = Len(private_messages) + 1])
    /\ UNCHANGED <<conn, db_users, users, feedVars, private_chats, rooms, sio_rooms, delivered>>

\* emit('new_private_message', {..., 'type': 'file'}, room=chat_id)
private_file_emit(c) ==
    /\ pc[c] = "private_file_emit"
    /\ delivered' = delivered \cup
           { <<m[2], frame[c].target>> : m \in { x \in sio_rooms : x[1] = frame[c].chat_id } }
    /\ Finish(c, Silent("send_private_file"))
    /\ UNCHANGED <<conn, db_users, users, feedVars, private_chats, private_messages, rooms,
                   sio_rooms>>

\* uploaded_file: GET /uploads/<filename>; out records the path and what
\* the response carries
uploaded_file(path) ==
    /\ out' = [NoReply EXCEPT !.h = "uploaded_file", !.filepath = path,
                              !.ev = IF get_path(uploads, path) = NotFound
                                     THEN "404" ELSE "200",
                              !.body = get_path(uploads, path)]
    /\ UNCHANGED <<conn, db_users, users, pc, frame, issued, roomVars, feedVars>>

\* ------------------------------------------------------------- favorites
\* The row that add_to_favorites inserts; 0 stands for NULL.  added_at is
\* CURRENT_TIMESTAMP: the sequence favorites keeps its rows in that order.
favorite_row(user_id, message_id, chat_id) ==
    [user_id |-> user_id,
     message_id |-> IF chat_id = General THEN message_id ELSE 0,
     private_message_id |-> IF chat_id = General THEN 0 ELSE message_id,
     chat_id |-> chat_id]

\* The row's target is the target of `row`
same_target(r, row) ==
    /\ r.user_id = row.user_id
    /\ \/ row.message_id # 0 /\ r.message_id = row.message_id
       \/ row.private_message_id # 0 /\ r.private_message_id = row.private_message_id

\* A schema that would lack unique_general_favorite and unique_private_favorite
favorites_unique_none(favs, row) == FALSE

\* CONSTRAINT unique_general_favorite UNIQUE (user_id, message_id),
\* CONSTRAINT unique_private_favorite UNIQUE (user_id, private_message_id)
favorites_unique_violation(favs, row) ==
    \E i \in 1..Len(favs) : same_target(favs[i], row)

\* message_id REFERENCES messages(id), private_message_id REFERENCES
\* private_messages(id)
favorites_fk_violation(row) ==
    \/ row.message_id # 0 /\ row.message_id \notin 1..Len(messages)
    \/ row.private_message_id # 0
          /\ row.private_message_id \notin 1..Len(private_messages)

\* A DELETE that would lack the condition on the message
remove_from_favorites_of_user(favs, row) ==
    LET keep(r) == r.user_id # row.user_id
    IN  SelectSeq(favs, keep)

\* The rows left by DELETE FROM favorites WHERE user_id = %s AND message_id =
\* %s (or private_message_id = %s)
remove_from_favorites(favs, row) ==
    LET keep(r) == ~same_target(r, row)
    IN  SelectSeq(favs, keep)

\* handle_toggle_favorite up to the return of add_to_favorites /
\* remove_from_favorites; message_id 0 stands for an absent one
handle_toggle_favorite(c, message_id, chat_id, is_favorite) ==
    /\ Idle(c)
    /\ IF c \notin DOMAIN users \/ message_id = 0
       THEN /\ Finish(c, Silent("toggle_favorite"))
            /\ UNCHANGED favorites
       ELSE LET row == favorite_row(users[c].id, message_id, chat_id)
                f == [NoFrame EXCEPT !.h = "toggle_favorite", !.uid = users[c].id,
                                     !.target = message_id, !.chat_id = chat_id,
                                     !.is_favorite = is_favorite]
            IN  IF ~is_favorite
                THEN /\ favorites' = remove_from_favorites(favorites, row)
                     /\ Goto(c, "favorite_result",
                             [f EXCEPT !.success = (favorites' # favorites)])
                ELSE IF favorites_unique_violation(favorites, row)
                THEN /\ Goto(c, "favorite_result",
                             [f EXCEPT !.error = "already_favorite"])
                     /\ UNCHANGED favorites
                ELSE IF favorites_fk_violation(row)
                THEN /\ Goto(c, "favorite_result",
                             [f EXCEPT !.error = "ForeignKeyViolation"])
                     /\ UNCHANGED favorites
                ELSE /\ favorites' = Append(favorites, row)
                     /\ Goto(c, "favorite_result", [f EXCEPT !.success = TRUE])
    /\ UNCHANGED <<conn, db_users, users, roomVars, messages, uploads>>

\* emit('favorite_toggled', {'message_id': ..., 'is_favorite': ...}): the
\* result of the store call is dropped
favorite_toggled(c) ==
    /\ pc[c] = "favorite_result"
    /\ Finish(c, [Reply("toggle_favorite", "favorite_toggled", frame[c], "")
                    EXCEPT !.audience = Open({c})])
    /\ UNCHANGED <<conn, db_users, users, roomVars, feedVars>>

Reverse(seq) == [i \in 1..Len(seq) |-> seq[Len(seq) + 1 - i]]

\* A SELECT that would lack the condition on f.user_id
general_favs_of_all(favs, user_id) ==
    LET mine(r) == r.message_id # 0
        found == Reverse(SelectSeq(favs, mine))
    IN  [i \in 1..Len(found) |->
            [id |-> found[i].message_id, chat_id |-> General]]

\* get_favorites, first SELECT: favorites JOIN messages WHERE f.user_id = %s
\* AND f.message_id IS NOT NULL ORDER BY f.added_at DESC
general_favs(favs, user_id) ==
    LET mine(r) == r.user_id = user_id /\ r.message_id # 0
        found == Reverse(SelectSeq(favs, mine))
    IN  [i \in 1..Len(found) |->
            [id |-> found[i].message_id, chat_id |-> General]]

\* get_favorites, second SELECT: favorites JOIN private_messages JOIN
\* private_chats ON f.chat_id = pc.chat_id ... WHERE f.user_id = %s AND
\* f.private_message_id IS NOT NULL ORDER BY f.added_at DESC
private_favs(favs, chats, user_id) ==
    LET mine(r) == /\ r.user_id = user_id
                   /\ r.private_message_id # 0
                   /\ \E k \in 1..Len(chats) : chats[k].chat_id = r.chat_id
        found == Reverse(SelectSeq(favs, mine))
    IN  [i \in 1..Len(found) |->
            [id |-> found[i].private_message_id, chat_id |-> found[i].chat_id]]

\* handle_get_favorites up to the first SELECT of get_favorites
handle_get_favorites(c) ==
    /\ Idle(c)
    /\ IF c \notin DOMAIN users
       THEN Finish(c, Silent("get_favorites"))
       ELSE Goto(c, "favorites_private",
                 [NoFrame EXCEPT !.h = "get_favorites", !.uid = users[c].id,
                                 !.rows = general_favs(favorites, users[c].id)])
    /\ UNCHANGED <<conn, db_users, users, roomVars, feedVars>>

\* get_favorites from the second SELECT on: all_favorites is the general
\* rows followed by the private rows; emit('favorites_list', favorites)
get_favorites(c) ==
    /\ pc[c] = "favorites_private"
    /\ Finish(c, [Reply("get_favorites", "favorites_list", frame[c], "")
                    EXCEPT !.audience = Open({c}),
                           !.list = frame[c].rows \o
                                    private_favs(favorites, private_chats,
                                                 frame[c].uid)])
    /\ UNCHANGED <<conn, db_users, users, roomVars, feedVars>>

\* ------------------------------------------------- the room specification
\* n users have registered, user i on connection i, which is still open.
Tags ==
    << <<"a", "n", "n">>, <<"b", "o", "b">>, <<"c", "a", "t">>, <<"d", "a", "n">>,
       <<"e", "v", "e">> >>

Registered(n) ==
    /\ conn = [c \in 1..n |-> "open"]
    /\ db_users = [i \in 1..n |->
                      [socket_id |-> i, username |-> <<"A", "l">>, user_tag |-> Tags[i],
                       avatar |-> "default", session_token |-> i]]
    /\ users = [c \in 1..n |->
                   [id |-> c, username |-> <<"A", "l">>, tag |-> Tags[c],
                    avatar |-> "default", token |-> c]]
    /\ pc = [c \in 1..n |-> "idle"]
    /\ frame = [c \in 1..n |-> NoFrame]
    /\ out = NoReply
    /\ issued = 1..n

NumRoomUsers == 2

RoomConns == 1..NumRoomUsers

RoomInit ==
    /\ Registered(NumRoomUsers)
    /\ private_chats = <<>>
    /\ private_messages = <<>>
    /\ rooms = <<>>
    /\ sio_rooms = {}
    /\ delivered = {}
    /\ messages = <<>>
    /\ favorites = <<>>
    /\ uploads = <<>>

\* "Bob" is lowered to bob; " " is empty once stripped; nobody is zoe.
TargetInputs ==
    { Tags[i] : i \in RoomConns } \cup { <<"B", "o", "b">>, <<" ">>, <<"z", "o", "e">> }

\* The chat of users 1 and 2, and no chat_id at all
RoomChatIds == { generate_chat_id(1, 2), <<>> }

RoomNext ==
    \/ \E c \in RoomConns : handle_disconnect(c)
    \/ \E c \in RoomConns, tag \in TargetInputs : handle_start_private_chat(c, tag)
    \/ \E c \in RoomConns : chat_select(c)
    \/ \E c \in RoomConns : chat_insert(c)
    \/ \E c \in RoomConns : chat_join(c)
    \/ \E c \in RoomConns, chat_id \in RoomChatIds : handle_join_private_chat(c, chat_id)
    \/ \E c \in RoomConns, chat_id \in RoomChatIds : handle_leave_private_chat(c, chat_id)

RoomSpec == RoomInit /\ [][RoomNext]_vars

\* ---------------------------------------------- the messaging specification
\* Users 1 and 2 have a private chat; the other users are outsiders to it.
NumMessageUsers == 3

MessageConns == 1..NumMessageUsers

TheChat == generate_chat_id(1, 2)

MessageInit ==
    /\ Registered(NumMessageUsers)
    /\ private_chats = << [chat_id |-> TheChat, user1_id |-> 1, user2_id |-> 2] >>
    /\ private_messages = <<>>
    /\ rooms = <<>>
    /\ sio_rooms = {}
    /\ delivered = {}
    /\ messages = <<>>
    /\ favorites = <<>>
    /\ uploads = <<>>

\* The chat, a chat that does not exist, and no chat_id at all
MessageChatIds == { TheChat, generate_chat_id(1, 3), <<>> }

TextInputs == { <<"h", "i">>, <<" ">> }

MessageNext ==
    \/ \E c \in MessageConns : handle_disconnect(c)
    \/ \E c \in MessageConns, chat_id \in { TheChat, <<>> } :
          handle_join_private_chat(c, chat_id)
    \/ \E c \in MessageConns, chat_id \in { TheChat, <<>> } :
          handle_leave_private_chat(c, chat_id)
    \/ \E c \in MessageConns, chat_id \in MessageChatIds, text \in TextInputs :
          handle_send_private_message(c, chat_id, text)
    \/ \E c \in MessageConns : save_private_message(c)
    \/ \E c \in MessageConns : emit_private_message(c)

MessageSpec == MessageInit /\ [][MessageNext]_vars

\* ------------------------------------------ the general chat specification
\* User 1 has registered on connection 1; the other connections are open and
\* have no user yet.
NumFeedConns == 2

FeedConns == 1..NumFeedConns

FeedInit ==
    /\ conn = [c \in FeedConns |-> "open"]
    /\ db_users = << [socket_id |-> 1, username |-> <<"A", "l">>, user_tag |-> Tags[1],
                      avatar |-> "default", session_token |-> 1] >>
    /\ users = [c \in {1} |->
                   [id |-> 1, username |-> <<"A", "l">>, tag |-> Tags[1],
                    avatar |-> "default", token |-> 1]]
    /\ pc = [c \in FeedConns |-> "idle"]
    /\ frame = [c \in FeedConns |-> NoFrame]
    /\ out = NoReply
    /\ issued = {1}
    /\ private_chats = <<>>
    /\ private_messages = <<>>
    /\ rooms = <<>>
    /\ sio_rooms = {}
    /\ delivered = {}
    /\ messages = <<>>
    /\ favorites = <<>>
    /\ uploads = <<>>

FeedTagInputs == { Tags[2] }

FeedProfileTagInputs == { Tags[3] }

FeedNext ==
    \/ \E c \in FeedConns : handle_disconnect(c)
    \/ \E c \in FeedConns, name \in ProfileNameInputs, tag \in FeedTagInputs,
            avatar \in AvatarInputs :
          handle_register(c, name, tag, avatar)
    \/ \E c \in FeedConns : create_user(c)
    \/ \E c \in FeedConns : register_update_user(c)
    \/ \E c \in FeedConns : update_user_update(c)
    \/ \E c \in FeedConns : register_result(c)
    \/ \E c \in FeedConns, session_token \in issued :
          handle_check_session(c, session_token)
    \/ \E c \in FeedConns : login_by_session(c)
    \/ \E c \in FeedConns : session_result(c)
    \/ \E c \in FeedConns, tag \in Opt(FeedProfileTagInputs) :
          handle_update_profile(c, <<>>, tag, <<>>)
    \/ \E c \in FeedConns : profile_result(c)
    \/ \E c \in FeedConns, text \in TextInputs : handle_message(c, text)
    \/ \E c \in FeedConns : save_message(c)
    \/ \E c \in FeedConns : emit_message(c)
    \/ \E c \in FeedConns : handle_get_message_history(c)
    \/ \E c \in FeedConns, is_favorite \in BOOLEAN :
          handle_toggle_favorite(c, 1, General, is_favorite)
    \/ \E c \in FeedConns : favorite_toggled(c)

FeedSpec == FeedInit /\ [][FeedNext]_vars

\* ----------------------------------------------- the history specification
\* Users 1 and 2 are bound; user 2 has sent the messages that the general
\* chat holds so far: none, or as many as one history returns, give or take
\* one.
NumHistoryUsers == 2

HistoryConns == 1..NumHistoryUsers

HeldInputs == { 0, HistoryLimit - 1, HistoryLimit }

HistoryInit ==
    /\ Registered(NumHistoryUsers)
    /\ private_chats = <<>>
    /\ private_messages = <<>>
    /\ rooms = <<>>
    /\ sio_rooms = {}
    /\ delivered = {}
    /\ \E held \in HeldInputs :
          messages = [i \in 1..held |->
                         [user_id |-> 2, username |-> <<"A", "l">>, user_tag |-> Tags[2],
                          avatar |-> "default", message_text |-> <<"h", "i">>,
                          filename |-> <<>>, filepath |-> <<>>,
                          message_type |-> "text"]]
    /\ favorites = <<>>
    /\ uploads = <<>>

HistoryNext ==
    \/ \E c \in HistoryConns : handle_disconnect(c)
    \/ \E c \in HistoryConns, text \in TextInputs : handle_message(c, text)
    \/ \E c \in HistoryConns : save_message(c)
    \/ \E c \in HistoryConns : emit_message(c)
    \/ \E c \in HistoryConns : handle_get_message_history(c)

HistorySpec == HistoryInit /\ [][HistoryNext]_vars

\* --------------------------------------------- the favorites specification
\* Users 1 and 2 are bound and have a private chat; the general chat holds
\* one message and the private chat holds one.
NumFavoriteUsers == 2

FavoriteConns == 1..NumFavoriteUsers

FavoriteInit ==
    /\ Registered(NumFavoriteUsers)
    /\ private_chats = << [chat_id |-> TheChat, user1_id |-> 1, user2_id |-> 2] >>
    /\ private_messages = << [chat_id |-> TheChat, sender_id |-> 1, receiver_id |-> 2,
                              message_text |-> <<"h", "i">>, filename |-> <<>>,
                              filepath |-> <<>>, message_type |-> "text"] >>
    /\ rooms = <<>>
    /\ sio_rooms = {}
    /\ delivered = {}
    /\ messages = << [user_id |-> 1, username |-> <<"A", "l">>, user_tag |-> Tags[1],
                      avatar |-> "default", message_text |-> <<"h", "i">>,
                      filename |-> <<>>, filepath |-> <<>>, message_type |-> "text"] >>
    /\ favorites = <<>>
    /\ uploads = <<>>

\* No message_id, the id of the two messages, and an id that no message has
FavoriteMessageIds == 0..2

\* 'general', the chat of the private message, and no chat_id
FavoriteChatIds == { General, TheChat, <<>> }

FavoriteNext ==
    \/ \E c \in FavoriteConns : handle_disconnect(c)
    \/ \E c \in FavoriteConns, message_id \in FavoriteMessageIds,
            chat_id \in FavoriteChatIds, is_favorite \in BOOLEAN :
          handle_toggle_favorite(c, message_id, chat_id, is_favorite)
    \/ \E c \in FavoriteConns : favorite_toggled(c)
    \/ \E c \in FavoriteConns : handle_get_favorites(c)
    \/ \E c \in FavoriteConns : get_favorites(c)

FavoriteSpec == FavoriteInit /\ [][FavoriteNext]_vars

\* ------------------------------------------------- the name specification
\* Users 1 and 2 are bound.  They register again and update their profiles
\* with names of every kind: absent, empty, blank, of 50 characters and of 51.
NumNameUsers == 2

NameConns == 1..NumNameUsers

NameInit ==
    /\ Registered(NumNameUsers)
    /\ private_chats = <<>>
    /\ private_messages = <<>>
    /\ rooms = <<>>
    /\ sio_rooms = {}
    /\ delivered = {}
    /\ messages = <<>>
    /\ favorites = <<>>
    /\ uploads = <<>>

LongNameInputs ==
    { <<>>, <<" ">>, [i \in 1..50 |-> "x"], [i \in 1..51 |-> "x"] }

NameNext ==
    \/ \E c \in NameConns, name \in LongNameInputs, avatar \in AvatarInputs :
          handle_register(c, name, Tags[c], avatar)
    \/ \E c \in NameConns : register_update_user(c)
    \/ \E c \in NameConns : update_user_update(c)
    \/ \E c \in NameConns : register_result(c)
    \/ \E c \in NameConns, name \in Opt(LongNameInputs) :
          handle_update_profile(c, name, <<>>, <<>>)
    \/ \E c \in NameConns : profile_result(c)

NameSpec == NameInit /\ [][NameNext]_vars

\* ------------------------------------------ the threaded room specification
\* SocketIO(app, ...) names no async_mode: without eventlet or gevent the
\* server runs each handler in a thread of its own, and the interpreter may
\* switch threads between any two reads or writes of the dict rooms, which no
\* lock protects.  handle_join_private_chat is therefore taken apart into
\* its accesses to rooms; handle_leave_private_chat and handle_disconnect
\* are left whole (one of the schedules they have).
NumThreadUsers == 2

ThreadConns == 1..NumThreadUsers

ThreadInit ==
    /\ Registered(NumThreadUsers)
    /\ private_chats = << [chat_id |-> TheChat, user1_id |-> 1, user2_id |-> 2] >>
    /\ private_messages = <<>>
    /\ rooms = <<>>
    /\ sio_rooms = {}
    /\ delivered = {}
    /\ messages = <<>>
    /\ favorites = <<>>
    /\ uploads = <<>>

\* handle_join_private_chat up to join_room(chat_id)
join_room(c, chat_id) ==
    /\ Idle(c)
    /\ IF chat_id = <<>>
       THEN /\ Finish(c, [Silent("join_private_chat") EXCEPT !.chat_id = chat_id])
            /\ UNCHANGED sio_rooms
       ELSE /\ sio_rooms' = sio_rooms \cup { <<chat_id, c>> }
            /\ Goto(c, "join_check",
                    [NoFrame EXCEPT !.h = "join_private_chat", !.chat_id = chat_id])
    /\ UNCHANGED <<conn, db_users, users, feedVars, private_chats, private_messages, rooms,
                   delivered>>

\* if chat_id not in rooms:
join_check(c) ==
    /\ pc[c] = "join_check"
    /\ Goto(c, IF frame[c].chat_id \in DOMAIN rooms THEN "join_append" ELSE "join_create",
            frame[c])
    /\ UNCHANGED <<conn, db_users, users, roomVars, feedVars>>

\* rooms[chat_id] = []
join_create(c) ==
    /\ pc[c] = "join_create"
    /\ rooms' = [k \in DOMAIN rooms \cup {frame[c].chat_id} |->
                    IF k = frame[c].chat_id THEN <<>> ELSE rooms[k]]
    /\ Goto(c, "join_append", frame[c])
    /\ UNCHANGED <<conn, db_users, users, feedVars, private_chats, private_messages,
                   sio_rooms, delivered>>

\* rooms[chat_id].append(request.sid): KeyError when the entry is gone
join_append(c) ==
    /\ pc[c] = "join_append"
    /\ LET chat_id == frame[c].chat_id
       IN  IF chat_id \notin DOMAIN rooms
           THEN /\ Finish(c, Raised("join_private_chat", frame[c], "KeyError"))
                /\ UNCHANGED rooms
           ELSE /\ Len(rooms[chat_id]) < MaxJoins
                /\ rooms' = [rooms EXCEPT ![chat_id] = Append(@, c)]
                /\ Finish(c, [Silent("join_private_chat") EXCEPT !.chat_id = chat_id])
    /\ UNCHANGED <<conn, db_users, users, feedVars, private_chats, private_messages,
                   sio_rooms, delivered>>

ThreadNext ==
    \/ \E c \in ThreadConns : handle_disconnect(c)
    \/ \E c \in ThreadConns, chat_id \in RoomChatIds : join_room(c, chat_id)
    \/ \E c \in ThreadConns : join_check(c)
    \/ \E c \in ThreadConns : join_create(c)
    \/ \E c \in ThreadConns : join_append(c)
    \/ \E c \in ThreadConns, chat_id \in RoomChatIds : handle_leave_private_chat(c, chat_id)

ThreadSpec == ThreadInit /\ [][ThreadNext]_vars

\* -------------------------------------------- the validation specification
\* Users 1 and 2 are bound and have a private chat, which connection 1 has
\* joined; one more connection is open and has no user.  The payloads are
\* well-formed and malformed ones.
NumValidationUsers == 2

ValidationConns == 1..(NumValidationUsers + 1)

ValidationInit ==
    /\ conn = [c \in ValidationConns |-> "open"]
    /\ db_users = [i \in 1..NumValidationUsers |->
                      [socket_id |-> i, username |-> <<"A", "l">>, user_tag |-> Tags[i],
                       avatar |-> "default", session_token |-> i]]
    /\ users = [c \in 1..NumValidationUsers |->
                   [id |-> c, username |-> <<"A", "l">>, tag |-> Tags[c],
                    avatar |-> "default", token |-> c]]
    /\ pc = [c \in ValidationConns |-> "idle"]
    /\ frame = [c \in ValidationConns |-> NoFrame]
    /\ out = NoReply
    /\ issued = 1..NumValidationUsers
    /\ private_chats = << [chat_id |-> TheChat, user1_id |-> 1, user2_id |-> 2] >>
    /\ private_messages = <<>>
    /\ rooms = [k \in {TheChat} |-> <<1>>]
    /\ sio_rooms = { <<TheChat, 1>> }
    /\ delivered = {}
    /\ messages = <<>>
    /\ favorites = <<>>
    /\ uploads = <<>>

\* The longest name that is accepted, and the shortest that is not
NameOfLen(n) == [i \in 1..n |-> "x"]

\* The payloads of register: <<username, tag>>.  One that is accepted (its
\* name has 50 characters once stripped; its handle is the one of user 1
\* followed by a newline, which strip() removes);
\* names that are not: blank, 51 characters; handles that are not: too
\* short, too long, a character outside the pattern.
ValidationPayloads ==
    { << <<" ">> \o NameOfLen(50) \o <<" ">>, Tags[1] \o <<"\n">> >>,
      << <<" ">>, Tags[1] >>,
      << NameOfLen(51), Tags[1] >>,
      << <<"A", "l">>, <<"a", "b">> >>,
      << <<"A", "l">>, [i \in 1..21 |-> "a"] >>,
      << <<"A", "l">>, <<"a", "-", "b">> >> }

ValidationTextInputs == { <<"h", "i">>, <<>>, <<" ", " ">> }

ValidationNext ==
    \/ \E c \in ValidationConns, data \in ValidationPayloads, avatar \in AvatarInputs :
          handle_register(c, data[1], data[2], avatar)
    \/ \E c \in ValidationConns : create_user(c)
    \/ \E c \in ValidationConns : register_update_user(c)
    \/ \E c \in ValidationConns : update_user_update(c)
    \/ \E c \in ValidationConns : register_result(c)
    \/ \E c \in ValidationConns, text \in ValidationTextInputs : handle_message(c, text)
    \/ \E c \in ValidationConns : save_message(c)
    \/ \E c \in ValidationConns : emit_message(c)
    \/ \E c \in ValidationConns, text \in ValidationTextInputs :
          handle_send_private_message(c, TheChat, text)
    \/ \E c \in ValidationConns : save_private_message(c)
    \/ \E c \in ValidationConns : emit_private_message(c)

ValidationSpec == ValidationInit /\ [][ValidationNext]_vars

\* ----------------------------------------------- the chat id specification
\* generate_chat_id is called with any two user ids, again and again.
MaxChatUserId == 10

ChatUserIds == 1..MaxChatUserId

\* One call of generate_chat_id; out records the arguments and the result.
generate_chat_id_call(user1_id, user2_id) ==
    /\ out' = [NoReply EXCEPT !.h = "generate_chat_id", !.uid = user1_id,
                              !.target = user2_id,
                              !.chat_id = generate_chat_id(user1_id, user2_id)]
    /\ UNCHANGED <<conn, db_users, users, pc, frame, issued, roomVars, feedVars>>

ChatIdNext ==
    \E user1_id \in ChatUserIds, user2_id \in ChatUserIds :
        generate_chat_id_call(user1_id, user2_id)

ChatIdSpec == Init /\ [][ChatIdNext]_vars

\* ------------------------------------------------ the send specification
\* Two users with a private chat send text messages to the general chat and
\* to the private chat; each save may complete or raise, and the room of the
\* private chat has one member from the start.
NumSendUsers == 2

SendConns == 1..NumSendUsers

SendInit ==
    /\ Registered(NumSendUsers)
    /\ private_chats = << [chat_id |-> TheChat, user1_id |-> 1, user2_id |-> 2] >>
    /\ private_messages = <<>>
    /\ rooms = [k \in {TheChat} |-> <<1>>]
    /\ sio_rooms = { <<TheChat, 1>> }
    /\ delivered = {}
    /\ messages = <<>>
    /\ favorites = <<>>
    /\ uploads = <<>>

SendTextInputs == { <<"h", "i">>, <<"y", "o", " ">> }

SendNext ==
    \/ \E c \in SendConns : handle_disconnect(c)
    \/ \E c \in SendConns : handle_join_private_chat(c, TheChat)
    \/ \E c \in SendConns, text \in SendTextInputs : handle_message(c, text)
    \/ \E c \in SendConns : save_message(c)
    \/ \E c \in SendConns : save_message_raises(c)
    \/ \E c \in SendConns : emit_message(c)
    \/ \E c \in SendConns, text \in SendTextInputs :
          handle_send_private_message(c, TheChat, text)
    \/ \E c \in SendConns : save_private_message(c)
    \/ \E c \in SendConns : save_private_message_raises(c)
    \/ \E c \in SendConns : emit_private_message(c)

SendSpec == SendInit /\ [][SendNext]_vars

\* ------------------------------------------------ the file specification
\* Two users with a private chat upload files to the general chat and to
\* the private chat, and anyone fetches a path of the route /uploads.
NumFileUsers == 2

FileConns == 1..NumFileUsers

FileInit ==
    /\ Registered(NumFileUsers)
    /\ private_chats = << [chat_id |-> TheChat, user1_id |-> 1, user2_id |-> 2] >>
    /\ private_messages = <<>>
    /\ rooms = [k \in {TheChat} |-> <<1>>]
    /\ sio_rooms = { <<TheChat, 1>> }
    /\ delivered = {}
    /\ messages = <<>>
    /\ favorites = <<>>
    /\ uploads = <<>>

\* File names and contents as the client sends them: a plain name with
\* its content, the same name behind a directory part with another content
\* as a data URL, a name of dots only, and a content that does not decode
FilePayloads ==
    { << <<"a", ".", "t">>, <<"Q", "Q", "=", "=">> >>,
      << <<".", ".", "/", "a", ".", "t">>, <<"d", ",", "Q", "g", "=", "=">> >>,
      << <<".", ".">>, <<"Q", "Q", "=", "=">> >>,
      << <<"a", " ", "b">>, <<"Q">> >> }

FilePaths ==
    { uploads_path(<<"a", ".", "t">>), uploads_path(<<"a", "_", "b">>) }

FileNext ==
    \/ \E c \in FileConns, data \in FilePayloads : handle_file(c, data[1], data[2])
    \/ \E c \in FileConns : file_write(c)
    \/ \E c \in FileConns : file_save_message(c)
    \/ \E c \in FileConns : file_emit(c)
    \/ \E c \in FileConns, data \in FilePayloads :
          handle_send_private_file(c, TheChat, data[1], data[2])
    \/ \E c \in FileConns : private_file_write(c)
    \/ \E c \in FileConns : private_file_save_message(c)
    \/ \E c \in FileConns : private_file_emit(c)
    \/ \E path \in FilePaths : uploaded_file(path)

FileSpec == FileInit /\ [][FileNext]_vars

\* =================================================================
\* Properties of the identity specification (Spec)
\* =================================================================

\* C1: in every reachable state, whatever register and update_profile events
\* the connections send and however their handlers interleave, no two rows
\* of table users hold the same handle.
C1_HandleUnique ==
    \A i, j \in 1..Len(db_users) :
        i # j => db_users[i].user_tag # db_users[j].user_tag

\* Two users exist and a rename to the other's handle was just refused.
C1_Witness ==
    /\ Len(db_users) = 2
    /\ out.h = "update_profile"
    /\ out.ev = "profile_error"
    /\ out.error = "tag_taken"

\* The INSERT of create_user runs for connection c.
CreateStep(c) ==
    /\ pc[c] = "register_existing"
    /\ frame[c].uid = 0
    /\ pc'[c] # "register_existing"

\* C2: of two connections without a bound user that register the same valid
\* handle concurrently, the one whose INSERT comes first creates the one
\* new user and is answered register_success; the other, whose INSERT finds
\* the handle held, creates nothing and is answered register_error with
\* tag_taken; neither handler raises.
C2_RaceOneWinner ==
    [][ \A c1 \in DOMAIN pc :
          /\ CreateStep(c1) =>
                LET h == frame[c1].user_tag
                    held == get_user_by_tag(db_users, h) # 0
                IN  /\ pc'[c1] = "register_result"
                    /\ frame'[c1].success = ~held
                    /\ held => /\ db_users' = db_users
                               /\ frame'[c1].error = "tag_taken"
                    /\ ~held => /\ Len(db_users') = Len(db_users) + 1
                                /\ SubSeq(db_users', 1, Len(db_users)) = db_users
                                /\ db_users'[Len(db_users')].user_tag = h
                                /\ db_users'[Len(db_users')].socket_id = c1
                                /\ frame'[c1].uid = Len(db_users')
                    /\ \A c2 \in DOMAIN pc \ {c1} :
                          (/\ pc[c2] = "register_existing"
                           /\ frame[c2].uid = 0
                           /\ frame[c2].user_tag = h)
                          => /\ pc'[c2] = "register_existing"
                             /\ frame'[c2] = frame[c2]
                             /\ get_user_by_tag(db_users', h) # 0
          /\ (pc[c1] = "register_result" /\ pc'[c1] = "idle") =>
                /\ out'.to = c1
                /\ (frame[c1].success /\ frame[c1].uid # 0) =>
                       /\ out'.ev = "register_success"
                       /\ out'.uid = frame[c1].uid
                /\ ~frame[c1].success =>
                       /\ out'.ev = "register_error"
                       /\ out'.error = frame[c1].error
                       /\ users' = users
      ]_vars

\* Connection out.to, which had no user, was just refused the handle that the
\* user registered on another connection holds.
C2_Witness ==
    /\ out.h = "register"
    /\ out.ev = "register_error"
    /\ out.error = "tag_taken"
    /\ get_user_by_socket(db_users, out.to) = 0
    /\ Len(db_users) = 1
    /\ db_users[1].user_tag = out.tag
    /\ db_users[1].socket_id # out.to
    /\ db_users[1].socket_id \in DOMAIN users

\* C6: the dict users holds entries only of connections that are open: no
\* handler of a connection adds or leaves an entry for it once its
\* disconnect has been handled.
C6_RegistryOnlyOpen == \A c \in DOMAIN users : conn[c] = "open"

\* C7: for a token that user U owns and an open connection c, whatever c was
\* bound to before, the UPDATE of login_by_session sets U's socket_id to c
\* and the handler goes on to bind c to U in users and to answer c with U's
\* identity.
C7_ResumeRebinds ==
    [][ \A c \in DOMAIN pc :
          /\ (pc[c] = "session_update" /\ pc'[c] # "session_update") =>
                /\ pc'[c] = "session_result"
                /\ db_users'[frame[c].uid].socket_id = c
          /\ (pc[c] = "session_result" /\ pc'[c] = "idle") =>
                /\ c \in DOMAIN users'
                /\ users'[c].id = frame[c].uid
                /\ out'.to = c
                /\ out'.ev = "session_result"
                /\ out'.uid = frame[c].uid
      ]_vars

\* C8: check_session with a token that no user owns changes neither the
\* store nor the dict users and answers the connection with a
\* session_result (has_session false).
C8_UnknownTokenAnswered ==
    [][ (/\ out'.h = "check_session"
         /\ out'.token # NoToken
         /\ get_user_by_session(db_users, out'.token) = 0)
        => /\ db_users' = db_users
           /\ users' = users
           /\ out'.ev = "session_result"
           /\ out'.uid = 0
      ]_vars

\* C9: a successful register of a connection that the dict users binds to a
\* user updates that user's row in place: same id, same session token, as
\* many rows as before, and users binds the connection to that id and
\* token.  A row is added only by the register of a connection that users
\* binds to no user.
C9_RegisterInPlace ==
    [][ \A c \in DOMAIN pc :
          /\ (/\ pc[c] = "register_update"
              /\ pc'[c] = "register_result"
              /\ frame'[c].success
              /\ frame'[c].uid # 0) =>
                LET id == frame[c].uid
                IN  /\ frame'[c].uid = id
                    /\ Len(db_users') = Len(db_users)
                    /\ db_users'[id].socket_id = c
                    /\ db_users'[id].session_token = db_users[id].session_token
                    /\ frame'[c].token = db_users[id].session_token
                    /\ \A i \in 1..Len(db_users) : i # id => db_users'[i] = db_users[i]
          /\ (/\ pc[c] = "register_result"
              /\ pc'[c] = "idle"
              /\ frame[c].success
              /\ frame[c].uid # 0) =>
                /\ users'[c].id = frame[c].uid
                /\ users'[c].token = frame[c].token
                /\ out'.uid = frame[c].uid
                /\ out'.token = frame[c].token
          /\ (/\ Len(db_users') > Len(db_users)
              /\ db_users'[Len(db_users')].socket_id = c) =>
                /\ pc[c] = "register_existing"
                /\ c \notin DOMAIN users
      ]_vars

\* C24: in every reachable state the handle of every row of users matches
\* the pattern: 3 to 20 characters, each of a-z, 0-9 or underscore.
C24_HandlesMatchPattern ==
    \A i \in 1..Len(db_users) : matches_handle_pattern(db_users[i].user_tag)

\* C27: whenever no handler is under way and the dict users binds connection
\* c to user U, the socket_id of U's row is c and the handle and the name
\* that users holds for c are those of U's row.
C27_RegistryAgreesWithStore ==
    (\A c \in DOMAIN pc : pc[c] = "idle") =>
        \A c \in DOMAIN users :
            /\ users[c].id \in 1..Len(db_users)
            /\ db_users[users[c].id].socket_id = c
            /\ db_users[users[c].id].user_tag = users[c].tag
            /\ db_users[users[c].id].username = users[c].username

\* The INSERT of create_user or the UPDATE of update_user of connection c
\* returns in this step
WriteStep(c) ==
    /\ pc[c] \in {"register_existing", "register_update", "profile_update"}
    /\ pc'[c] \in {"register_result", "profile_result"}

\* C29: a register or update_profile is answered tag_taken only if, when its
\* INSERT or UPDATE runs, a row of a user other than the caller's holds the
\* requested handle, the caller's user being the one that the dict users
\* binds the connection to and the one whose socket_id is the connection.
C29_TagTakenOnlyIfHeldByOther ==
    [][ \A c \in DOMAIN pc :
          (WriteStep(c) /\ frame'[c].error = "tag_taken") =>
              \E i \in 1..Len(db_users) :
                  /\ db_users[i].user_tag = frame[c].user_tag
                  /\ i # get_user_by_socket(db_users, c)
                  /\ c \in DOMAIN users => i # users[c].id
      ]_vars

\* =================================================================
\* Properties of the room specification (RoomSpec)
\* =================================================================

\* The rows of private_chats whose members are the users a and b
PairRows(a, b) ==
    { i \in 1..Len(private_chats) :
        {private_chats[i].user1_id, private_chats[i].user2_id} = {a, b} }

\* C3: every start_private_chat of a bound user towards another existing
\* user, in either direction and however the callers interleave, is
\* answered with the pair's room id: a conflicting INSERT is resolved by
\* re-reading, and no caller is answered a failure.
C3_EveryCallerGetsRoom ==
    (/\ out.h = "start_private_chat"
     /\ out.uid # 0
     /\ out.target # 0
     /\ out.target # out.uid)
    => /\ out.ev = "private_chat_started"
       /\ out.chat_id = generate_chat_id(out.uid, out.target)

C5_DisconnectPrunes ==
    [][ \A c \in DOMAIN conn :
          (conn[c] = "open" /\ conn'[c] = "closed") =>
              /\ c \notin DOMAIN users'
              /\ \A k \in DOMAIN rooms' : ~InList(rooms'[k], c)
      ]_vars

\* C21: a start_private_chat whose target is the caller's own user is
\* answered private_chat_error with self_chat, writes no row and joins the
\* caller to no room; private_chats never holds a row whose two members are
\* the same user.
C21_SelfChatRejected ==
    [][ /\ \A i \in 1..Len(private_chats') :
              private_chats'[i].user1_id # private_chats'[i].user2_id
        /\ \A c \in DOMAIN pc :
              (/\ pc[c] = "chat_target"
               /\ pc'[c] # "chat_target"
               /\ frame[c].target = frame[c].uid)
              => /\ pc'[c] = "idle"
                 /\ out'.to = c
                 /\ out'.ev = "private_chat_error"
                 /\ out'.error = "self_chat"
                 /\ private_chats' = private_chats
                 /\ rooms' = rooms
                 /\ sio_rooms' = sio_rooms
      ]_vars

\* User 1 named its own handle and was refused; the chat of users 1 and 2
\* exists, and connection 1 is in no room.
C21_Witness ==
    /\ out.h = "start_private_chat"
    /\ out.ev = "private_chat_error"
    /\ out.error = "self_chat"
    /\ out.to = 1
    /\ out.uid = 1
    /\ out.target = 1
    /\ Len(private_chats) = 1
    /\ \A m \in sio_rooms : m[2] # 1
    /\ \A k \in DOMAIN rooms : ~InList(rooms[k], 1)

\* C26: the dict rooms and the transport's rooms agree in every reachable
\* state: a connection is in the list rooms[chat_id] exactly when it is
\* joined to the transport's room chat_id.
C26_MapAgreesWithTransport ==
    \A c \in DOMAIN conn :
        \A k \in DOMAIN rooms \cup { m[1] : m \in sio_rooms } :
            Listed(rooms, k, c) <=> <<k, c>> \in sio_rooms

\* =================================================================
\* Properties of the threaded room specification (ThreadSpec)
\* =================================================================

\* C25: however the handlers of join_private_chat, leave_private_chat and
\* disconnect interleave, a join ends without an exception and with the
\* connection in the list of its room, and a connection leaves a list only
\* by its own leave_private_chat or its own disconnect.
C25_NoLostRoomUpdate ==
    [][ /\ \A c \in DOMAIN pc :
              (pc[c] = "join_append" /\ pc'[c] = "idle") =>
                  /\ out'.ev # "exception"
                  /\ conn[c] = "open" => Listed(rooms', frame[c].chat_id, c)
        /\ \A k \in DOMAIN rooms : \A c \in DOMAIN conn :
              (Listed(rooms, k, c) /\ ~Listed(rooms', k, c)) =>
                  \/ conn[c] = "open" /\ conn'[c] = "closed"
                  \/ /\ out'.h = "leave_private_chat"
                     /\ out'.to = c
                     /\ out'.chat_id = k
      ]_vars


\* =================================================================

\* What the handlers may change before they have validated the payload
Durable ==
    <<db_users, private_chats, private_messages, messages, favorites, users, rooms,
      sio_rooms, delivered>>

\* The handler h of connection c began and ended in this step
Returned(c, h) ==
    /\ pc[c] = "idle"
    /\ pc'[c] = "idle"
    /\ out'.to = c
    /\ out'.h = h

\* C23: a register whose name is empty or longer than 50 characters or whose
\* handle does not match the pattern, and a send_message or
\* send_private_message whose text is empty once stripped, end before any
\* store call and leave the tables, the dict users and the rooms as they
\* were: whatever goes on to a store call carries a valid name and handle,
\* or a non-empty text.
C23_RejectedBeforeStore ==
    [][ \A c \in DOMAIN pc :
          /\ Returned(c, "register") =>
                /\ out'.ev = "register_error"
                /\ out'.error \in {"invalid_name", "invalid_tag"}
                /\ out'.error = "invalid_name" <=> invalid_name(out'.username)
                /\ out'.error = "invalid_tag" =>
                       ~matches_handle_pattern(out'.tag) /\ ~invalid_name(out'.username)
                /\ UNCHANGED Durable
          /\ (pc[c] = "idle" /\ pc'[c] = "register_existing") =>
                /\ ~invalid_name(frame'[c].username)
                /\ matches_handle_pattern(frame'[c].user_tag)
                /\ UNCHANGED Durable
          /\ (Returned(c, "send_message") \/ Returned(c, "send_private_message")) =>
                /\ out'.ev = ""
                /\ UNCHANGED Durable
          /\ (pc[c] = "idle" /\ pc'[c] \in {"broadcast_save", "message_chat"}) =>
                /\ frame'[c].text # <<>>
                /\ Head(frame'[c].text) # " "
                /\ frame'[c].text[Len(frame'[c].text)] # " "
                /\ UNCHANGED Durable
      ]_vars

\* The connection without a user sent a name of 51 characters with a handle
\* that matches the pattern, and was refused; a message of each kind is stored and
\* connection 1 is in the chat's room.
C23_Witness ==
    /\ out.h = "register"
    /\ out.to \notin DOMAIN users
    /\ out.error = "invalid_name"
    /\ Len(out.username) = 51
    /\ matches_handle_pattern(out.tag)
    /\ Len(messages) = 1
    /\ Len(private_messages) = 1
    /\ <<TheChat, 1>> \in sio_rooms


\* =================================================================

\* C22: generate_chat_id(a, b) is generate_chat_id(b, a) for every two user
\* ids, and a later call with the same two ids, in either order, returns what
\* the earlier call returned.
C22_ChatIdSymmetric ==
    [][ out'.h = "generate_chat_id" =>
          /\ out'.chat_id = generate_chat_id(out'.target, out'.uid)
          /\ out.h = "generate_chat_id" =>
                ({out'.uid, out'.target} = {out.uid, out.target}
                    => out'.chat_id = out.chat_id)
      ]_vars

\* The call with the larger id first returned the id of the pair.
C22_Witness ==
    /\ out.h = "generate_chat_id"
    /\ out.uid = 2
    /\ out.target = 1
    /\ out.chat_id = generate_chat_id(1, 2)

\* =================================================================
\* Properties of the messaging specification (MessageSpec)
\* =================================================================

\* C10: a send_private_message to an existing room by a user who is not one
\* of its two members persists no row and delivers nothing: every row of
\* private_messages has a member of its room as sender, and every delivered
\* message is such a row.
C10_SenderIsMember ==
    /\ \A i \in 1..Len(private_messages) :
          LET chat == private_chats[select_chat_by_id(private_chats,
                                                       private_messages[i].chat_id)]
          IN  private_messages[i].sender_id \in {chat.user1_id, chat.user2_id}
    /\ \A d \in delivered :
          LET chat == private_chats[select_chat_by_id(private_chats,
                                                       private_messages[d[2]].chat_id)]
          IN  private_messages[d[2]].sender_id \in {chat.user1_id, chat.user2_id}

\* C11: every row of private_messages has as receiver the member of its room
\* other than its sender: sender and receiver are the room's two distinct
\* members.
C11_ReceiverIsOtherMember ==
    \A i \in 1..Len(private_messages) :
        LET m == private_messages[i]
            chat == private_chats[select_chat_by_id(private_chats, m.chat_id)]
        IN  /\ m.sender_id # m.receiver_id
            /\ {m.sender_id, m.receiver_id} = {chat.user1_id, chat.user2_id}

\* C28: a new_private_message event reaches only connections whose bound
\* user is one of the two members of the message's room.
C28_DeliveredToMembersOnly ==
    [][ \A d \in delivered' \ delivered :
          LET chat == private_chats[select_chat_by_id(private_chats,
                                                       private_messages'[d[2]].chat_id)]
          IN  /\ d[1] \in DOMAIN users
              /\ users[d[1]].id \in {chat.user1_id, chat.user2_id}
      ]_vars

\* C12: a private message is delivered to exactly the connections that are
\* joined to its room when it is emitted, where a connection is joined from
\* its join_private_chat until its leave_private_chat or its disconnect and
\* no other step changes who is joined; whose user the connection belongs to
\* plays no part.
C12_DeliveredToJoined ==
    [][ /\ \A c \in DOMAIN pc :
              (pc[c] = "message_saved" /\ pc'[c] = "idle") =>
                  \A c2 \in DOMAIN conn :
                      <<c2, frame[c].target>> \in delivered'
                          <=> <<frame[c].chat_id, c2>> \in sio_rooms
        /\ (\A c \in DOMAIN pc : ~(pc[c] = "message_saved" /\ pc'[c] = "idle"))
              => delivered' = delivered
        /\ IF out'.h = "join_private_chat" /\ out'.chat_id # <<>>
           THEN sio_rooms' = sio_rooms \cup { <<out'.chat_id, out'.to>> }
           ELSE IF out'.h = "leave_private_chat" /\ out'.chat_id # <<>>
           THEN sio_rooms' = sio_rooms \ { <<out'.chat_id, out'.to>> }
           ELSE IF \E c \in DOMAIN conn : conn[c] = "open" /\ conn'[c] = "closed"
           THEN sio_rooms' = { x \in sio_rooms : conn'[x[2]] = "open" }
           ELSE sio_rooms' = sio_rooms
      ]_vars

\* The one message of the chat of users 1 and 2 reached connection 1, which
\* is joined, and not connection 2, which is open and belongs to user 2, a
\* member, but is not joined; connection 2 is in the list rooms[TheChat]
\* from an earlier join.
C12_Witness ==
    /\ Len(private_messages) = 1
    /\ private_messages[1].chat_id = TheChat
    /\ delivered = { <<1, 1>> }
    /\ conn[2] = "open"
    /\ 2 \in DOMAIN users
    /\ users[2].id = 2
    /\ <<TheChat, 2>> \notin sio_rooms
    /\ TheChat \in DOMAIN rooms
    /\ InList(rooms[TheChat], 2)


\* =================================================================
\* Properties of the general chat specification (FeedSpec)
\* =================================================================

\* C13: a send_message with a non-empty text of a bound connection adds
\* exactly one row to messages, and its new_message event carries that row's
\* id and reaches every connection that the dict users holds at that moment.
C13_BroadcastReachesBound ==
    [][ \A c \in DOMAIN pc :
          /\ (pc[c] = "broadcast_save" /\ pc'[c] # "broadcast_save") =>
                /\ Len(messages') = Len(messages) + 1
                /\ SubSeq(messages', 1, Len(messages)) = messages
                /\ messages'[Len(messages')].user_id = frame[c].uid
                /\ messages'[Len(messages')].message_text = frame[c].text
                /\ pc'[c] = "broadcast_emit"
                /\ frame'[c].target = Len(messages')
          /\ (pc[c] = "broadcast_emit" /\ pc'[c] # "broadcast_emit") =>
                /\ messages' = messages
                /\ out'.ev = "new_message"
                /\ out'.target = frame[c].target
                /\ \A c2 \in DOMAIN users : c2 \in out'.audience
      ]_vars

\* C15: every message_history payload that reaches a connection with a bound
\* user carries, for each message, is_favorite equal to whether that user
\* has the message among its favorites.
C15_FavoriteFlagOfReceiver ==
    \A c \in out.history_to :
        c \in DOMAIN users =>
            \A i \in 1..Len(out.history) :
                out.history[i].is_favorite
                    = check_message_favorite(favorites, users[c].id, out.history[i].id)

\* C16: every message of a message_history payload shows the handle that its
\* author holds in table users when the history is read.
C16_HistoryShowsCurrentHandle ==
    out.history_to # {} =>
        \A i \in 1..Len(out.history) :
            out.history[i].tag = db_users[messages[out.history[i].id].user_id].user_tag

\* =================================================================
\* Properties of the history specification (HistorySpec)
\* =================================================================

\* C14: the history that get_message_history returns to a connection holds
\* every message that table messages held when it was requested, however
\* many those are.
C14_HistoryHoldsEveryMessage ==
    out.h = "get_message_history" =>
        \A i \in 1..Len(messages) :
            \E j \in 1..Len(out.history) : out.history[j].id = i

\* =================================================================
\* Properties of the favorites specification (FavoriteSpec)
\* =================================================================

\* The rows of favs that user_id holds for message message_id of the general
\* chat (general) or of a private chat
FavoriteRows(favs, user_id, message_id, general) ==
    { i \in 1..Len(favs) :
        /\ favs[i].user_id = user_id
        /\ IF general THEN favs[i].message_id = message_id
           ELSE favs[i].private_message_id = message_id }

\* The step in which the store call of a toggle_favorite of c returns
ToggleStep(c) == pc[c] = "idle" /\ pc'[c] = "favorite_result"

\* C17: favorites never holds two rows of one user for one message, and an
\* add for a pair that is already there changes nothing and returns
\* already_favorite.
C17_OneFavoritePerTarget ==
    [][ /\ \A i, j \in 1..Len(favorites') :
              (/\ favorites'[i].user_id = favorites'[j].user_id
               /\ favorites'[i].message_id = favorites'[j].message_id
               /\ favorites'[i].private_message_id = favorites'[j].private_message_id)
              => i = j
        /\ \A c \in DOMAIN pc :
              (/\ ToggleStep(c)
               /\ frame'[c].is_favorite
               /\ FavoriteRows(favorites, frame'[c].uid, frame'[c].target,
                               frame'[c].chat_id = General) # {})
              => /\ favorites' = favorites
                 /\ ~frame'[c].success
                 /\ frame'[c].error = "already_favorite"
      ]_vars

\* User 1 holds one favorite for the message of the general chat and one for
\* the private message, and its add for one of them has just been refused.
C17_Witness ==
    /\ pc[1] = "favorite_result"
    /\ frame[1].is_favorite
    /\ frame[1].error = "already_favorite"
    /\ Cardinality(FavoriteRows(favorites, 1, 1, TRUE)) = 1
    /\ Cardinality(FavoriteRows(favorites, 1, 1, FALSE)) = 1

\* C18: a remove raises nothing, returns whether a row was deleted, leaves
\* no row of the pair and touches no other row; for a pair that is not
\* there it returns False and favorites is unchanged, so a second remove
\* leaves what the first left.
C18_RemoveIdempotent ==
    [][ \A c \in DOMAIN pc :
          (ToggleStep(c) /\ ~frame'[c].is_favorite) =>
              LET user_id == frame'[c].uid
                  general == frame'[c].chat_id = General
                  there == FavoriteRows(favorites, user_id, frame'[c].target, general)
              IN  /\ frame'[c].error = ""
                  /\ frame'[c].success = (there # {})
                  /\ FavoriteRows(favorites', user_id, frame'[c].target, general) = {}
                  /\ there = {} => favorites' = favorites
                  /\ Len(favorites') = Len(favorites) - Cardinality(there)
                  /\ \A i \in 1..Len(favorites) :
                        i \notin there =>
                            \E j \in 1..Len(favorites') : favorites'[j] = favorites[i]
      ]_vars

\* User 1, which holds a favorite for the private message and none for the
\* message of the general chat, has just removed the latter: nothing was
\* deleted.
C18_Witness ==
    /\ pc[1] = "favorite_result"
    /\ ~frame[1].is_favorite
    /\ ~frame[1].success
    /\ frame[1].target = 1
    /\ frame[1].chat_id = General
    /\ FavoriteRows(favorites, 1, 1, TRUE) = {}
    /\ FavoriteRows(favorites, 1, 1, FALSE) # {}
    /\ \E i \in 1..Len(favorites) : favorites[i].user_id = 2

\* The rows of favs that user_id holds
RowsOf(favs, user_id) == { i \in 1..Len(favs) : favs[i].user_id = user_id }

\* message_id is a message of the general chat (chat_id is 'general') or a
\* message of the private chat chat_id
ExistingMessage(message_id, chat_id) ==
    IF chat_id = General THEN message_id \in 1..Len(messages)
    ELSE /\ message_id \in 1..Len(private_messages)
         /\ private_messages[message_id].chat_id = chat_id

\* C19: for a user without favorites and an existing message m, named with
\* 'general' or with the chat it belongs to: get_favorites returns the empty
\* list; the add of m leaves the user exactly the row of m, and then the
\* list is the one entry m; the remove of m leaves the user no row, and the
\* list is empty again.
C19_ToggleThenList ==
    [][ \A c \in DOMAIN pc :
          /\ (/\ ToggleStep(c)
              /\ frame'[c].is_favorite
              /\ RowsOf(favorites, frame'[c].uid) = {}
              /\ ExistingMessage(frame'[c].target, frame'[c].chat_id))
             => /\ frame'[c].success
                /\ Cardinality(RowsOf(favorites', frame'[c].uid)) = 1
                /\ RowsOf(favorites', frame'[c].uid)
                       = FavoriteRows(favorites', frame'[c].uid, frame'[c].target,
                                      frame'[c].chat_id = General)
                /\ \A i \in RowsOf(favorites', frame'[c].uid) :
                       favorites'[i].chat_id = frame'[c].chat_id
          /\ (/\ ToggleStep(c)
              /\ ~frame'[c].is_favorite
              /\ RowsOf(favorites, frame'[c].uid)
                     = FavoriteRows(favorites, frame'[c].uid, frame'[c].target,
                                    frame'[c].chat_id = General))
             => RowsOf(favorites', frame'[c].uid) = {}
          /\ (pc[c] = "favorites_private" /\ pc'[c] = "idle")
             => LET mine == RowsOf(favorites, frame[c].uid)
                IN  /\ out'.ev = "favorites_list"
                    /\ mine = {} => out'.list = <<>>
                    /\ \A i \in mine :
                          (/\ mine = {i}
                           /\ ExistingMessage(favorites[i].message_id
                                                  + favorites[i].private_message_id,
                                              favorites[i].chat_id))
                          => out'.list = << [id |-> favorites[i].message_id
                                                     + favorites[i].private_message_id,
                                             chat_id |-> favorites[i].chat_id] >>
      ]_vars

\* User 1, whose only favorite is the private message, has just been sent
\* its list: that one entry; user 2 holds a favorite of its own.
C19_Witness ==
    /\ out.ev = "favorites_list"
    /\ out.uid = 1
    /\ out.list = << [id |-> 1, chat_id |-> TheChat] >>
    /\ Cardinality(RowsOf(favorites, 1)) = 1
    /\ RowsOf(favorites, 2) # {}

\* The row of favs that the entry of the list of user_id was made from
RowOfEntry(favs, user_id, entry) ==
    CHOOSE i \in 1..Len(favs) :
        /\ favs[i].user_id = user_id
        /\ IF entry.chat_id = General THEN favs[i].message_id = entry.id
           ELSE favs[i].private_message_id = entry.id

\* C20: the list of get_favorites is in the order of added_at descending
\* across both kinds of message: of any two entries, the one added later
\* comes first.
C20_ListNewestFirst ==
    out.ev = "favorites_list" =>
        \A i, j \in 1..Len(out.list) :
            i < j => RowOfEntry(favorites, out.uid, out.list[i])
                         > RowOfEntry(favorites, out.uid, out.list[j])

\* C30: the is_favorite of a favorite_toggled event tells whether favorites
\* holds a row of the caller's user for the message once the store call has
\* returned, for every message_id, also one that no message has.
C30_ToggledFlagIsStored ==
    out.ev = "favorite_toggled" =>
        out.is_favorite
            = (FavoriteRows(favorites, out.uid, out.target, out.chat_id = General) # {})

\* =================================================================
\* Properties of the name specification (NameSpec)
\* =================================================================

\* C31: in every reachable state the name of every row of users is not
\* empty and has at most 50 characters.
C31_NamesValid ==
    \A i \in 1..Len(db_users) : ~invalid_name(db_users[i].username)

\* =================================================================
\* Properties of the send specification (SendSpec)
\* =================================================================

\* The handler of connection c ends in this step with an exception raised
\* by its save
PersistRaises(c) ==
    /\ pc[c] \in {"broadcast_save", "message_chat"}
    /\ pc'[c] = "idle"
    /\ out'.to = c
    /\ out'.ev = "exception"

\* C32: a step that emits new_message carries the id of a row that messages
\* held before the step, with the author and the text of the event; a step
\* that delivers new_private_message delivers the id of a row that
\* private_messages held before the step, whose sender and text are those of
\* the send; and a send whose save raises stores nothing and delivers
\* nothing.
C32_PersistPrecedesFanOut ==
    [][ /\ (out'.ev = "new_message" /\ out' # out)
            => /\ out'.target \in 1..Len(messages)
               /\ messages[out'.target].user_id = out'.uid
               /\ messages[out'.target].message_text = out'.text
        /\ \A d \in delivered' \ delivered :
              \E c \in DOMAIN pc :
                 /\ pc[c] = "message_saved"
                 /\ pc'[c] = "idle"
                 /\ d[2] = frame[c].target
                 /\ d[2] \in 1..Len(private_messages)
                 /\ private_messages[d[2]].sender_id = frame[c].uid
                 /\ private_messages[d[2]].message_text = frame[c].text
        /\ \A c \in DOMAIN pc :
              PersistRaises(c)
                 => /\ messages' = messages
                    /\ private_messages' = private_messages
                    /\ delivered' = delivered
                    /\ out'.audience = {}
      ]_vars

\* Both users have been sent a new_message that the other one's private
\* message preceded to a member of the room
C32_Witness ==
    /\ out.ev = "new_message"
    /\ out.audience = SendConns
    /\ out.text = <<"y", "o">>
    /\ delivered # {}


\* =================================================================
\* Properties of the file specification (FileSpec)
\* =================================================================

\* The rows of messages and of private_messages that are file messages
FileRows ==
    { r \in { messages[i] : i \in 1..Len(messages) }
             \cup { private_messages[i] : i \in 1..Len(private_messages) } :
        r.message_type = "file" }

\* C33: no step changes what the path stored with a file message returns:
\* for every file message in messages or private_messages, a GET of its
\* filepath returns after the step what it returned before.
C33_RetrievalUnchanged ==
    [][ \A r \in FileRows :
           get_path(uploads', r.filepath) = get_path(uploads, r.filepath) ]_vars


====
